---- MODULE Spec2Model ----
(***************************************************************************)
(* A model of the Programmable Matter Simulation: the grid, the agents,    *)
(* the planners (A*, BFS, Minimax), the greedy "Hungarian" assignment, the *)
(* deadlock handler and the tick scheduler (simulationStep) with its       *)
(* escalation ladder, together with the setup operations of the page.      *)
(*                                                                         *)
(* Positions are records [x, y]; a grid is a function grid[y][x] over      *)
(* 0..size-1, as in the source.  A set of the source that is only iterated *)
(* in insertion order is a sequence here.                                  *)
(***************************************************************************)
EXTENDS Integers, Sequences, FiniteSets, TLC

\* ------------------------------------------------------------------ bounds
\* Side of the square grid (gridSize).
GridSize == 3
\* Most agents the user places.
MaxAgents == 2
\* Most targets the user places.
MaxTargets == 2

\* --------------------------------------------------------- program constants
CELL_EMPTY == 0
CELL_WALL == 1
CELL_AGENT == 2
\* JavaScript's Infinity in scores and in visibilityRange.
Infinity == 1000000000
\* null (targetX, targetY of an agent without a target).
NULL == -1
\* Step costs of A*, in thousandths: 1 and 1.414.
COST_ORTHOGONAL == 1000
COST_DIAGONAL == 1414

TOPOLOGY_VON_NEUMANN == "vonNeumann"
TOPOLOGY_MOORE == "moore"
DECISION_CENTRALIZED == "centralized"
DECISION_DISTRIBUTED == "distributed"

\* ------------------------------------------------------------------ helpers
Abs(n) == IF n < 0 THEN -n ELSE n
Min2(a, b) == IF a < b THEN a ELSE b
Max2(a, b) == IF a > b THEN a ELSE b
Pos(px, py) == [x |-> px, y |-> py]
Manhattan(ax, ay, bx, by) == Abs(ax - bx) + Abs(ay - by)
Range(s) == {s[k] : k \in 1..Len(s)}
Indices(s) == 1..Len(s)

\* Array.sort with a numeric comparator, Before(a, b) <=> compare(a, b) < 0.
\* The sort is stable (ECMAScript 2019): elements that compare equal keep
\* their order.
StableSort(s, Before(_, _)) ==
    LET n == Len(s)
        rank(k) == Cardinality({j \in 1..n :
                        Before(s[j], s[k]) \/ (~Before(s[k], s[j]) /\ j < k)}) + 1
    IN [r \in 1..n |-> s[CHOOSE k \in 1..n : rank(k) = r]]

\* ----------------------------------------------------------------- topology
\* getDirections(topologyType)
getDirections(topologyType) ==
    IF topologyType = TOPOLOGY_MOORE
    THEN << Pos(0, -1), Pos(1, -1), Pos(1, 0), Pos(1, 1),
            Pos(0, 1), Pos(-1, 1), Pos(-1, 0), Pos(-1, -1) >>
    ELSE << Pos(0, -1), Pos(1, 0), Pos(0, 1), Pos(-1, 0) >>

InBounds(px, py, size) == px >= 0 /\ px < size /\ py >= 0 /\ py < size

\* getNeighbors(x, y, topologyType, gridSize): in-bounds neighbours, in the
\* order of the directions.
getNeighbors(px, py, topologyType, size) ==
    LET dirs == getDirections(topologyType)
        all == [k \in 1..Len(dirs) |-> Pos(px + dirs[k].x, py + dirs[k].y)]
        Inside(p) == InBounds(p.x, p.y, size)
    IN SelectSeq(all, Inside)

\* ------------------------------------------------------------------ planners
GridRows(grid) == Cardinality(DOMAIN grid)
GridCols(grid) == Cardinality(DOMAIN grid[0])
AllCells(grid) == {Pos(cx, cy) : cx \in 0..GridCols(grid) - 1, cy \in 0..GridRows(grid) - 1}
\* No entry under a key of cameFrom / parent.
NoPos == Pos(-1, -1)

\* reconstructPath(cameFrom, current) of AStar and of BFS: follow the map back
\* from the end for as long as a key has an entry.
RECURSIVE reconstructPath(_, _)
reconstructPath(cameFrom, current) ==
    IF cameFrom[current] = NoPos THEN <<current>>
    ELSE Append(reconstructPath(cameFrom, cameFrom[current]), current)

\* AStar.heuristic(a, b), in thousandths.
heuristic(topologyType, a, b) ==
    IF topologyType = TOPOLOGY_MOORE
    THEN COST_ORTHOGONAL * Max2(Abs(a.x - b.x), Abs(a.y - b.y))
    ELSE COST_ORTHOGONAL * (Abs(a.x - b.x) + Abs(a.y - b.y))

\* The body of A*'s loop over the directions, for one direction.
AStarVisit(grid, topologyType, end, st, current, dir) ==
    LET n == Pos(current.x + dir.x, current.y + dir.y)
    IN IF n.x < 0 \/ n.x >= GridCols(grid) \/ n.y < 0 \/ n.y >= GridRows(grid) THEN st
       ELSE IF n \in st.closedSet \/ grid[n.y][n.x] = 1 THEN st
       ELSE LET moveCost == IF Abs(dir.x) + Abs(dir.y) = 2 THEN COST_DIAGONAL
                            ELSE COST_ORTHOGONAL
                tentativeGScore == st.gScore[current] + moveCost
                neighborInOpenSet == \E k \in 1..Len(st.openSet) : st.openSet[k].pos = n
            IN IF neighborInOpenSet /\ tentativeGScore >= st.gScore[n] THEN st
               ELSE LET open1 == IF neighborInOpenSet THEN st.openSet
                                 ELSE Append(st.openSet, [pos |-> n, f |-> Infinity])
                        fN == tentativeGScore + heuristic(topologyType, n, end)
                    IN [openSet |-> [k \in 1..Len(open1) |->
                                        IF open1[k].pos = n THEN [pos |-> n, f |-> fN]
                                        ELSE open1[k]],
                        closedSet |-> st.closedSet,
                        cameFrom |-> [st.cameFrom EXCEPT ![n] = current],
                        gScore |-> [st.gScore EXCEPT ![n] = tentativeGScore]]

RECURSIVE AStarNeighbors(_, _, _, _, _, _)
AStarNeighbors(grid, topologyType, end, st, current, dirs) ==
    IF dirs = <<>> THEN st
    ELSE AStarNeighbors(grid, topologyType, end,
                        AStarVisit(grid, topologyType, end, st, current, Head(dirs)),
                        current, Tail(dirs))

\* The comparator of the open set turned round: the highest f first.
FGreater(a, b) == a.f > b.f

\* The comparator of openSet.sort: the lowest f first.
FLess(a, b) == a.f < b.f

\* The while loop of AStar.findPath: sort the open set by f, take the first.
RECURSIVE AStarLoop(_, _, _, _)
AStarLoop(grid, topologyType, end, st) ==
    IF st.openSet = <<>> THEN <<>>
    ELSE LET sorted == StableSort(st.openSet, FLess)
             current == sorted[1].pos
         IN IF current = end THEN reconstructPath(st.cameFrom, end)
            ELSE AStarLoop(grid, topologyType, end,
                    AStarNeighbors(grid, topologyType, end,
                        [st EXCEPT !.openSet = Tail(sorted),
                                   !.closedSet = @ \cup {current}],
                        current, getDirections(topologyType)))

\* new AStar(grid, topologyType).findPath(start, end)
AStarFindPath(grid, topologyType, start, end) ==
    AStarLoop(grid, topologyType, end,
        [openSet |-> << [pos |-> start, f |-> heuristic(topologyType, start, end)] >>,
         closedSet |-> {},
         cameFrom |-> [c \in AllCells(grid) |-> NoPos],
         gScore |-> [c \in AllCells(grid) |-> IF c = start THEN 0 ELSE Infinity]])

\* The four directions of bfs.js (the class takes no topology).
BFSDirections == << Pos(0, -1), Pos(1, 0), Pos(0, 1), Pos(-1, 0) >>

BFSVisit(grid, st, current, dir) ==
    LET n == Pos(current.x + dir.x, current.y + dir.y)
    IN IF n.x < 0 \/ n.x >= GridCols(grid) \/ n.y < 0 \/ n.y >= GridRows(grid) THEN st
       ELSE IF n \in st.visited \/ grid[n.y][n.x] = 1 THEN st
       ELSE [queue |-> Append(st.queue, n),
             visited |-> st.visited \cup {n},
             parent |-> [st.parent EXCEPT ![n] = current]]

RECURSIVE BFSNeighbors(_, _, _, _)
BFSNeighbors(grid, st, current, dirs) ==
    IF dirs = <<>> THEN st
    ELSE BFSNeighbors(grid, BFSVisit(grid, st, current, Head(dirs)), current, Tail(dirs))

RECURSIVE BFSLoop(_, _, _)
BFSLoop(grid, end, st) ==
    IF st.queue = <<>> THEN <<>>
    ELSE LET current == Head(st.queue)
         IN IF current = end THEN reconstructPath(st.parent, end)
            ELSE BFSLoop(grid, end,
                    BFSNeighbors(grid, [st EXCEPT !.queue = Tail(@)], current, BFSDirections))

\* new BFS(grid, topology).findPath(start, end): the constructor ignores its
\* second argument.
BFSFindPath(grid, start, end) ==
    BFSLoop(grid, end,
        [queue |-> <<start>>, visited |-> {start},
         parent |-> [c \in AllCells(grid) |-> NoPos]])

\* ------------------------------------------------------------------ Minimax
\* Max search depth of Minimax (this.maxDepth).
MINIMAX_MAX_DEPTH == 5
\* Minimax.evaluate at the goal.
GOAL_UTILITY == 1000
\* Minimax.evaluate elsewhere: BASE_UTILITY - distance.
BASE_UTILITY == 100

\* Minimax.isWall(x, y): out of bounds counts as a wall.
PlannerIsWall(grid, px, py) ==
    IF px < 0 \/ px >= GridCols(grid) \/ py < 0 \/ py >= GridRows(grid) THEN TRUE
    ELSE grid[py][px] = CELL_WALL

\* Minimax.getNeighbors(node): the neighbours that are no walls.
PlannerNeighbors(grid, topology, node) ==
    LET NotWall(n) == ~PlannerIsWall(grid, n.x, n.y)
    IN SelectSeq(getNeighbors(node.x, node.y, topology, GridRows(grid)), NotWall)

\* Minimax.evaluate(state)
MinimaxEvaluate(goal, state) ==
    IF state.x = goal.x /\ state.y = goal.y THEN GOAL_UTILITY
    ELSE BASE_UTILITY - (Abs(state.x - goal.x) + Abs(state.y - goal.y))

\* Minimax.minValue and Minimax.maxValue with their loops over the moves;
\* visited is passed down instead of being marked and unmarked.  maxValue
\* records a move in cameFrom only if value > alpha after alpha was raised to
\* at least value, which is never, so the search leaves cameFrom alone.
RECURSIVE MinimaxMinValue(_, _, _, _, _, _, _, _)
RECURSIVE MinimaxMaxValue(_, _, _, _, _, _, _, _)
RECURSIVE MinimaxMinMoves(_, _, _, _, _, _, _, _, _)
RECURSIVE MinimaxMaxMoves(_, _, _, _, _, _, _, _, _)

MinimaxMinMoves(grid, topology, goal, moves, depth, alpha, beta, visited, value) ==
    IF moves = <<>> THEN value
    ELSE LET move == Head(moves)
         IN IF move \in visited
            THEN MinimaxMinMoves(grid, topology, goal, Tail(moves), depth, alpha, beta,
                                 visited, value)
            ELSE LET v == Min2(value, MinimaxMaxValue(grid, topology, goal, move, depth - 1,
                                                     alpha, beta, visited \cup {move}))
                 IN IF v <= alpha THEN v
                    ELSE MinimaxMinMoves(grid, topology, goal, Tail(moves), depth, alpha,
                                         Min2(beta, v), visited, v)

MinimaxMaxMoves(grid, topology, goal, moves, depth, alpha, beta, visited, value) ==
    IF moves = <<>> THEN value
    ELSE LET move == Head(moves)
         IN IF move \in visited
            THEN MinimaxMaxMoves(grid, topology, goal, Tail(moves), depth, alpha, beta,
                                 visited, value)
            ELSE LET v == Max2(value, MinimaxMinValue(grid, topology, goal, move, depth - 1,
                                                     alpha, beta, visited \cup {move}))
                 IN IF v >= beta THEN v
                    ELSE MinimaxMaxMoves(grid, topology, goal, Tail(moves), depth,
                                         Max2(alpha, v), beta, visited, v)

MinimaxMinValue(grid, topology, goal, state, depth, alpha, beta, visited) ==
    IF state = goal \/ depth <= 0 THEN MinimaxEvaluate(goal, state)
    ELSE MinimaxMinMoves(grid, topology, goal, PlannerNeighbors(grid, topology, state),
                         depth, alpha, beta, visited, Infinity)

MinimaxMaxValue(grid, topology, goal, state, depth, alpha, beta, visited) ==
    IF state = goal \/ depth <= 0 THEN MinimaxEvaluate(goal, state)
    ELSE MinimaxMaxMoves(grid, topology, goal, PlannerNeighbors(grid, topology, state),
                         depth, alpha, beta, visited, -Infinity)

\* The loop of Minimax.minimaxDecision: best is [value, move], move NoPos for
\* null; a later move replaces the best only with a strictly higher value.
RECURSIVE MinimaxDecisionMoves(_, _, _, _, _, _)
MinimaxDecisionMoves(grid, topology, goal, moves, depth, best) ==
    IF moves = <<>> THEN best
    ELSE LET move == Head(moves)
             value == MinimaxMinValue(grid, topology, goal, move, depth - 1,
                                      -Infinity, Infinity, {move})
         IN MinimaxDecisionMoves(grid, topology, goal, Tail(moves), depth,
                IF value > best.value THEN [value |-> value, move |-> move] ELSE best)

minimaxDecision(grid, topology, goal, state, depth) ==
    MinimaxDecisionMoves(grid, topology, goal, PlannerNeighbors(grid, topology, state),
                         depth, [value |-> -Infinity, move |-> NoPos]).move

\* Minimax.findPath(start, goal).  The test for start = goal compares start.y
\* with itself.  cameFrom holds the one entry start -> bestMove, so the path
\* built from it is <<start, bestMove>>, completed by A* from bestMove.
MinimaxFindPath(grid, topology, start, goal) ==
    IF PlannerIsWall(grid, start.x, start.y) \/ PlannerIsWall(grid, goal.x, goal.y) THEN <<>>
    ELSE IF start.x = goal.x /\ start.y = start.y THEN <<start>>
    ELSE LET bestMove == minimaxDecision(grid, topology, goal, start, MINIMAX_MAX_DEPTH)
         IN IF bestMove = NoPos THEN <<start>>
            ELSE LET path == <<start, bestMove>>
                 IN IF bestMove = goal THEN path
                    ELSE LET restOfPath == AStarFindPath(grid, topology, bestMove, goal)
                         IN IF Len(restOfPath) > 1 THEN path \o Tail(restOfPath)
                            ELSE path

\* --------------------------------------------------------------- assignment
\* Factor of the penalty for an unreachable target in createCostMatrix.
UNREACHABLE_PENALTY == 10

\* HungarianAlgorithm.createCostMatrix(agents, targets, grid): costs[i][j] for
\* agent i and target j, both counted from 1; the A* of the matrix is built
\* without a topology, so it is Von Neumann's.
createCostMatrix(agentPositions, targets, grid) ==
    [i \in 1..Len(agentPositions) |->
        [j \in 1..Len(targets) |->
            LET path == AStarFindPath(grid, TOPOLOGY_VON_NEUMANN, agentPositions[i], targets[j])
            IN IF Len(path) > 0 THEN Len(path) - 1
               ELSE Manhattan(agentPositions[i].x, agentPositions[i].y,
                              targets[j].x, targets[j].y) * UNREACHABLE_PENALTY]]

MinOfSet(S) == CHOOSE m \in S : \A o \in S : m <= o

\* Steps 1 and 2 of hungarianAlgorithm: subtract the row minima, then the
\* column minima.
ReduceCosts(costMatrix) ==
    LET h == Len(costMatrix)
        w == Len(costMatrix[1])
        rowReduced == [i \in 1..h |-> [j \in 1..w |->
                          costMatrix[i][j] - MinOfSet({costMatrix[i][k] : k \in 1..w})]]
    IN [i \in 1..h |-> [j \in 1..w |->
           rowReduced[i][j] - MinOfSet({rowReduced[k][j] : k \in 1..h})]]

\* First loop of findAssignments: each agent in turn takes the uncovered target
\* of least cost, the first of them on a tie.  acc is [assignments, colCovered].
RECURSIVE GreedyAssign(_, _, _, _, _)
GreedyAssign(costs, h, w, i, acc) ==
    IF i > h THEN acc
    ELSE LET free == {j \in 1..w : j \notin acc.colCovered /\ costs[i][j] < Infinity}
         IN IF free = {} THEN GreedyAssign(costs, h, w, i + 1, acc)
            ELSE LET minVal == MinOfSet({costs[i][j] : j \in free})
                     minJ == MinOfSet({j \in free : costs[i][j] = minVal})
                 IN GreedyAssign(costs, h, w, i + 1,
                        [assignments |-> Append(acc.assignments, [row |-> i, col |-> minJ]),
                         colCovered |-> acc.colCovered \cup {minJ}])

\* findAssignments without its colCovered: each agent takes its target of least
\* cost, taken or not.
findAssignmentsUncovered(costs, h, w) ==
    [i \in 1..h |->
        [row |-> i,
         col |-> MinOfSet({j \in 1..w :
                     costs[i][j] = MinOfSet({costs[i][k] : k \in 1..w})})]]

\* HungarianAlgorithm.findAssignments(costs, h, w).  The second loop gives an
\* agent that the first loop left out the first uncovered target; the first
\* loop leaves an agent out only when no target is uncovered, so the second
\* loop adds nothing.
findAssignments(costs, h, w) ==
    GreedyAssign(costs, h, w, 1, [assignments |-> <<>>, colCovered |-> {}]).assignments

\* HungarianAlgorithm.hungarianAlgorithm(costMatrix)
hungarianAlgorithm(costMatrix) ==
    IF Len(costMatrix) = 0 THEN <<>>
    ELSE findAssignments(ReduceCosts(costMatrix), Len(costMatrix), Len(costMatrix[1]))

\* HungarianAlgorithm.findOptimalAssignment(agents, targets, grid): a sequence
\* of [agent, target], indices from 1.
findOptimalAssignment(agentPositions, targets, grid) ==
    LET assignments == hungarianAlgorithm(createCostMatrix(agentPositions, targets, grid))
    IN [k \in 1..Len(assignments) |->
           [agent |-> assignments[k].row, target |-> assignments[k].col]]

\* -------------------------------------------------------------------- world
\* The operators below work on a record w of the page's globals: grid, agents,
\* targetPositions, currentAlgorithm, currentTopology, currentDecisionMode and
\* the rest.  An agent is [x, y, targetX, targetY, path, isRetreating,
\* visibilityRange]; its id is its index in agents, counted from 0 in the
\* source and from 1 here.

\* A null coordinate in arithmetic is 0.
Num(v) == IF v = NULL THEN 0 ELSE v

AtTarget(a) == a.x = a.targetX /\ a.y = a.targetY

\* visibilityRange + n, Infinity staying Infinity; a range beyond every
\* distance of the grid is kept at VisibilityCap.
VisibilityCap == 4 * GridSize
AddVisibility(v, n) ==
    IF v >= Infinity THEN Infinity ELSE Min2(v + n, VisibilityCap)

\* A copy of the grid that keeps only the walls.
WallsOnly(grid) ==
    [cy \in DOMAIN grid |-> [cx \in DOMAIN grid[cy] |->
        IF grid[cy][cx] = CELL_WALL THEN CELL_WALL ELSE CELL_EMPTY]]

\* The visibility mask of the distributed mode: a cell farther than range
\* from the agent becomes a wall, except the cell keep (NoPos for none).
MaskBeyond(gridData, a, range, keep) ==
    [cy \in DOMAIN gridData |-> [cx \in DOMAIN gridData[cy] |->
        IF Manhattan(cx, cy, a.x, a.y) > range /\ ~(cx = keep.x /\ cy = keep.y)
        THEN CELL_WALL ELSE gridData[cy][cx]]]

TargetOf(a) == Pos(a.targetX, a.targetY)

\* Minimax.findPath reads grid[goal.y][goal.x] for a goal inside the bounds
\* test; with a null goal the read is of grid[null] and throws a TypeError.
PlannerThrows(w, goal) ==
    w.currentAlgorithm = "minimax" /\ (goal.x = NULL \/ goal.y = NULL)

\* createPathfinder(gridData).findPath(start, goal)
FindPath(w, gridData, start, goal) ==
    IF w.currentAlgorithm = "bfs" THEN BFSFindPath(gridData, start, goal)
    ELSE IF w.currentAlgorithm = "minimax"
         THEN MinimaxFindPath(gridData, w.currentTopology, start, goal)
    ELSE AStarFindPath(gridData, w.currentTopology, start, goal)

\* findTemporaryTarget(agent); the result is [world, result].
findTemporaryTarget(w, k) ==
    LET a == w.agents[k]
        distributed == w.currentDecisionMode = DECISION_DISTRIBUTED
        searchRadius == IF distributed THEN Min2(3, a.visibilityRange) ELSE 3
        side == 2 * searchRadius + 1
        cells == [i \in 1..(side * side) |->
                     Pos(a.x + ((i - 1) % side) - searchRadius,
                         a.y + ((i - 1) \div side) - searchRadius)]
        isOccupied(c) ==
            \E j \in 1..Len(w.agents) :
                /\ j # k
                /\ w.agents[j].x = c.x /\ w.agents[j].y = c.y
                /\ (distributed =>
                      Manhattan(w.agents[j].x, w.agents[j].y, a.x, a.y) <= a.visibilityRange)
        Option(c) ==
            /\ ~(c.x = a.x /\ c.y = a.y)
            /\ InBounds(c.x, c.y, GridSize)
            /\ w.grid[c.y][c.x] # CELL_WALL
            /\ ~isOccupied(c)
        score(c) == Manhattan(c.x, c.y, Num(a.targetX), Num(a.targetY)) * 2
                    + Manhattan(c.x, c.y, a.x, a.y)
        ScoreLess(c, d) == score(c) < score(d)
        retreatOptions == StableSort(SelectSeq(cells, Option), ScoreLess)
    IN IF Len(retreatOptions) = 0 THEN [world |-> w, result |-> FALSE]
       ELSE LET retreat == retreatOptions[1]
                clearedGrid == IF distributed
                               THEN MaskBeyond(WallsOnly(w.grid), a, a.visibilityRange, NoPos)
                               ELSE WallsOnly(w.grid)
                retreatPath == FindPath(w, clearedGrid, Pos(a.x, a.y), retreat)
            IN IF Len(retreatPath) > 1
               THEN [world |-> [w EXCEPT !.agents[k].path = retreatPath,
                                         !.agents[k].isRetreating = TRUE],
                     result |-> TRUE]
               ELSE [world |-> w, result |-> FALSE]

\* findPathIgnoringAgents(agent); the result is [world, result].  An exception
\* of the planner is caught here and gives false.
findPathIgnoringAgents(w, k) ==
    LET a == w.agents[k]
        clearedGrid == IF w.currentDecisionMode = DECISION_DISTRIBUTED
                       THEN MaskBeyond(WallsOnly(w.grid), a, a.visibilityRange, TargetOf(a))
                       ELSE WallsOnly(w.grid)
    IN IF PlannerThrows(w, TargetOf(a)) THEN [world |-> w, result |-> FALSE]
       ELSE LET path == FindPath(w, clearedGrid, Pos(a.x, a.y), TargetOf(a))
            IN IF Len(path) > 1
               THEN [world |-> [w EXCEPT !.agents[k].path = path], result |-> TRUE]
               ELSE [world |-> findTemporaryTarget(w, k).world, result |-> FALSE]

\* The grid copy of calculatePath.  Centralized: another agent is a wall if it
\* is at its target or has a path of at most one element, and an empty cell
\* otherwise; of several agents on one cell the last one decides.
\* Distributed: the visibility mask, then every other agent in range is a wall.
PathGridCopy(w, k) ==
    LET a == w.agents[k]
        others(cx, cy) == {j \in 1..Len(w.agents) :
                              j # k /\ w.agents[j].x = cx /\ w.agents[j].y = cy}
        last(S) == CHOOSE j \in S : \A i \in S : i <= j
        resting(j) == AtTarget(w.agents[j]) \/ Len(w.agents[j].path) <= 1
    IN IF w.currentDecisionMode = DECISION_CENTRALIZED
       THEN [cy \in DOMAIN w.grid |-> [cx \in DOMAIN w.grid[cy] |->
                IF others(cx, cy) = {} THEN w.grid[cy][cx]
                ELSE IF resting(last(others(cx, cy))) THEN CELL_WALL ELSE CELL_EMPTY]]
       ELSE LET masked == MaskBeyond(w.grid, a, a.visibilityRange, TargetOf(a))
            IN [cy \in DOMAIN w.grid |-> [cx \in DOMAIN w.grid[cy] |->
                   IF \E j \in others(cx, cy) :
                         Manhattan(w.agents[j].x, w.agents[j].y, a.x, a.y) <= a.visibilityRange
                   THEN CELL_WALL ELSE masked[cy][cx]]]

\* calculatePath(agent).  A path of one element or none hands over to
\* findPathIgnoringAgents; if that and the temporary target fail too, the
\* agent keeps the path it had.
calculatePath(w, k) ==
    LET a == w.agents[k]
    IN IF AtTarget(a) THEN [w EXCEPT !.agents[k].path = <<Pos(a.x, a.y)>>]
       ELSE IF PlannerThrows(w, TargetOf(a)) THEN w
       ELSE LET path == FindPath(w, PathGridCopy(w, k), Pos(a.x, a.y), TargetOf(a))
            IN IF Len(path) > 1 THEN [w EXCEPT !.agents[k].path = path]
               ELSE findPathIgnoringAgents(w, k).world

\* ------------------------------------------------------ target reassignment
\* Agents are named by their index in agents.  AgentsWhere gives, in the order
\* of agents, those that satisfy a test.
AgentIndices(w) == [k \in 1..Len(w.agents) |-> k]
agentsNotAtTargetOf(w) ==
    LET Test(k) == ~AtTarget(w.agents[k]) IN SelectSeq(AgentIndices(w), Test)
agentsAtTargetOf(w) ==
    LET Test(k) == AtTarget(w.agents[k]) IN SelectSeq(AgentIndices(w), Test)

\* Targets that no agent stands on.
emptyTargetsOf(w) ==
    LET Free(pos) == ~\E j \in 1..Len(w.agents) :
                         w.agents[j].x = pos.x /\ w.agents[j].y = pos.y
    IN SelectSeq(w.targetPositions, Free)

\* calculatePath for each agent of a list in turn.
RECURSIVE CalculatePaths(_, _)
CalculatePaths(w, ks) ==
    IF ks = <<>> THEN w ELSE CalculatePaths(calculatePath(w, Head(ks)), Tail(ks))

\* First index of a sequence of outcomes that is not "fail", 0 if none.
FirstOutcome(outcomes) ==
    IF \A i \in 1..Len(outcomes) : outcomes[i] = "fail" THEN 0
    ELSE CHOOSE i \in 1..Len(outcomes) :
            outcomes[i] # "fail" /\ \A j \in 1..(i - 1) : outcomes[j] = "fail"

\* Flatten a sequence of sequences.
RECURSIVE Flatten(_)
Flatten(ss) == IF ss = <<>> THEN <<>> ELSE Head(ss) \o Flatten(Tail(ss))

\* How much tryTargetReassignment and the scheduler widen a range.
VISIBILITY_BOOST == 2

\* The distributed prologue of tryTargetReassignment: widen the range of
\* every agent not at its target and schedule the restoration.  A pending
\* restoration holds the agents it captured (objs) and the ranges it stored
\* for them (orig).
BoostForReassignment(w) ==
    LET ks == agentsNotAtTargetOf(w)
        boosted == [k \in 1..Len(w.agents) |->
                       IF ~AtTarget(w.agents[k])
                       THEN [w.agents[k] EXCEPT !.visibilityRange =
                                AddVisibility(@, VISIBILITY_BOOST)]
                       ELSE w.agents[k]]
        restore == [objs |-> ks,
                    orig |-> [k \in Range(ks) |-> w.agents[k].visibilityRange]]
    IN [w EXCEPT !.agents = boosted,
                 !.pendingRestores = Append(@, restore)]

\* blockingAgentsAtTargets: for each agent at its target, the agents not at
\* their targets whose path holds its cell (in distributed mode only those
\* that see it), sorted by their number, most first.
blockingAgentsAtTargetsOf(w) ==
    LET notAt == agentsNotAtTargetOf(w)
        blocks(k, b) ==
            /\ (w.currentDecisionMode = DECISION_DISTRIBUTED =>
                   Manhattan(w.agents[k].x, w.agents[k].y, w.agents[b].x, w.agents[b].y)
                       <= w.agents[b].visibilityRange)
            /\ \E i \in 1..Len(w.agents[b].path) :
                   w.agents[b].path[i].x = w.agents[k].x /\ w.agents[b].path[i].y = w.agents[k].y
        info(k) == LET Blocked(b) == blocks(k, b)
                   IN [agent |-> k, blocking |-> SelectSeq(notAt, Blocked)]
        all == [i \in 1..Len(agentsAtTargetOf(w)) |-> info(agentsAtTargetOf(w)[i])]
        Some(inf) == Len(inf.blocking) > 0
        More(a, b) == Len(a.blocking) > Len(b.blocking)
    IN StableSort(SelectSeq(all, Some), More)

\* The grid of the distributed strategy for one agent and one target: walls,
\* the visibility mask that keeps the target, visible agents as walls.
DistributedReassignGrid(w, k, target) ==
    LET a == w.agents[k]
        masked == MaskBeyond(WallsOnly(w.grid), a, a.visibilityRange, target)
    IN [cy \in DOMAIN w.grid |-> [cx \in DOMAIN w.grid[cy] |->
           IF \E j \in 1..Len(w.agents) :
                 /\ j # k /\ w.agents[j].x = cx /\ w.agents[j].y = cy
                 /\ Manhattan(cx, cy, a.x, a.y) <= a.visibilityRange
           THEN CELL_WALL ELSE masked[cy][cx]]]

\* The distributed strategy of tryTargetReassignment (agents with fewer
\* visible empty targets first, nearer targets first); [world, result].
DistributedReassignment(w) ==
    LET emptyTargets == emptyTargetsOf(w)
        visible(k) == LET Seen(tg) == Manhattan(tg.x, tg.y, w.agents[k].x, w.agents[k].y)
                                          <= w.agents[k].visibilityRange
                      IN SelectSeq(emptyTargets, Seen)
        notAt == agentsNotAtTargetOf(w)
        HasTargets(k) == Len(visible(k)) > 0
        Fewer(j, k) == Len(visible(j)) < Len(visible(k))
        reassignmentAttempts == StableSort(SelectSeq(notAt, HasTargets), Fewer)
        sortedTargets(k) ==
            LET Nearer(p, q) == Manhattan(p.x, p.y, w.agents[k].x, w.agents[k].y)
                                  < Manhattan(q.x, q.y, w.agents[k].x, w.agents[k].y)
            IN StableSort(visible(k), Nearer)
        tries == Flatten([i \in 1..Len(reassignmentAttempts) |->
                     [j \in 1..Len(sortedTargets(reassignmentAttempts[i])) |->
                         [agent |-> reassignmentAttempts[i],
                          target |-> sortedTargets(reassignmentAttempts[i])[j]]]])
        pathOf(tr) == FindPath(w, DistributedReassignGrid(w, tr.agent, tr.target),
                               Pos(w.agents[tr.agent].x, w.agents[tr.agent].y), tr.target)
        first == FirstOutcome([i \in 1..Len(tries) |->
                     IF Len(pathOf(tries[i])) > 1 THEN "ok" ELSE "fail"])
    IN IF first = 0 THEN [world |-> w, result |-> FALSE]
       ELSE LET tr == tries[first]
            IN [world |-> [w EXCEPT !.agents[tr.agent].targetX = tr.target.x,
                                    !.agents[tr.agent].targetY = tr.target.y,
                                    !.agents[tr.agent].path = pathOf(tr)],
                result |-> TRUE]

\* The grid of the centralized strategies: walls, and every agent at its
\* target as a wall except the agents in excl.
ReassignGrid(w, excl) ==
    [cy \in DOMAIN w.grid |-> [cx \in DOMAIN w.grid[cy] |->
        IF w.grid[cy][cx] = CELL_WALL THEN CELL_WALL
        ELSE IF \E j \in 1..Len(w.agents) :
                   /\ j \notin excl
                   /\ w.agents[j].x = cx /\ w.agents[j].y = cy
                   /\ AtTarget(w.agents[j])
             THEN CELL_WALL ELSE CELL_EMPTY]]

AgentPos(w, k) == Pos(w.agents[k].x, w.agents[k].y)

\* "ok" if the planner finds a path of more than one cell for agent b to its
\* own target on testGrid, "throw" if the planner throws, "fail" otherwise.
ReachesOwnTarget(w, testGrid, b) ==
    IF PlannerThrows(w, TargetOf(w.agents[b])) THEN "throw"
    ELSE IF Len(FindPath(w, testGrid, AgentPos(w, b), TargetOf(w.agents[b]))) > 1 THEN "ok"
    ELSE "fail"

\* The loop of the chain strategy over the blocking agents, for agent k that
\* would leave its target: a blocker that can reach the vacated target is
\* taken off testGrid, and the agents it blocks are tried on it.  The result
\* is [testGrid, out].
RECURSIVE ChainBlockers(_, _, _, _)
ChainBlockers(w, k, infos, testGrid) ==
    IF infos = <<>> THEN [testGrid |-> testGrid, out |-> "fail"]
    ELSE LET b == Head(infos).agent
         IN IF b = k THEN ChainBlockers(w, k, Tail(infos), testGrid)
            ELSE IF Len(FindPath(w, testGrid, AgentPos(w, b), TargetOf(w.agents[k]))) > 1
                 THEN LET cleared == [testGrid EXCEPT ![w.agents[b].y][w.agents[b].x] = CELL_EMPTY]
                          blocked == Head(infos).blocking
                          outs == [i \in 1..Len(blocked) |->
                                      ReachesOwnTarget(w, cleared, blocked[i])]
                          first == FirstOutcome(outs)
                      IN IF first # 0 THEN [testGrid |-> cleared, out |-> outs[first]]
                         ELSE ChainBlockers(w, k, Tail(infos), cleared)
                 ELSE ChainBlockers(w, k, Tail(infos), testGrid)

\* One attempt of the chain strategy: agent k at its target, an empty target.
ChainAttempt(w, infos, k, target) ==
    IF target.x = w.agents[k].targetX /\ target.y = w.agents[k].targetY THEN "fail"
    ELSE IF Len(FindPath(w, ReassignGrid(w, {k}), AgentPos(w, k), target)) <= 1 THEN "fail"
    ELSE LET testGrid == [w.grid EXCEPT ![w.agents[k].y][w.agents[k].x] = CELL_EMPTY]
             chain == ChainBlockers(w, k, infos, testGrid)
         IN IF chain.out # "fail" THEN chain.out
            ELSE LET notAt == agentsNotAtTargetOf(w)
                     outs == [i \in 1..Len(notAt) |->
                                 ReachesOwnTarget(w, chain.testGrid, notAt[i])]
                     first == FirstOutcome(outs)
                 IN IF first = 0 THEN "fail" ELSE outs[first]

\* Every pair of an element of as and an element of bs, as in a loop over bs
\* inside a loop over as.
Pairs(as, bs) ==
    Flatten([i \in 1..Len(as) |-> [j \in 1..Len(bs) |-> [agent |-> as[i], target |-> bs[j]]]])

Thrown(w) == [world |-> [w EXCEPT !.threw = TRUE], result |-> FALSE]

SetTarget(w, k, target, path) ==
    [w EXCEPT !.agents[k].targetX = target.x,
              !.agents[k].targetY = target.y,
              !.agents[k].path = path]

\* First strategy: an agent at its target moves to an empty target if that
\* lets some other agent reach its own; [world, result].
ChainReassignment(w, infos) ==
    LET atTarget == agentsAtTargetOf(w)
        blockers == [i \in 1..Len(infos) |-> infos[i].agent]
        NotBlocker(k) == k \notin Range(blockers)
        agentsToTry == blockers \o SelectSeq(atTarget, NotBlocker)
        tries == Pairs(agentsToTry, emptyTargetsOf(w))
        outs == [i \in 1..Len(tries) |-> ChainAttempt(w, infos, tries[i].agent, tries[i].target)]
        first == FirstOutcome(outs)
    IN IF first = 0 THEN [world |-> w, result |-> FALSE]
       ELSE IF outs[first] = "throw" THEN Thrown(w)
       ELSE LET k == tries[first].agent
                path == FindPath(w, ReassignGrid(w, {k}), AgentPos(w, k), tries[first].target)
                Other(j) == j # k
            IN [world |-> CalculatePaths(SetTarget(w, k, tries[first].target, path),
                                         SelectSeq(AgentIndices(w), Other)),
                result |-> TRUE]

\* Second strategy: a blocking agent takes the nearest empty target it can
\* reach; the agents it blocked plan again.
BlockerReassignment(w, infos) ==
    LET emptyTargets == emptyTargetsOf(w)
        sortedTargets(k) ==
            LET Nearer(p, q) == Manhattan(w.agents[k].x, w.agents[k].y, p.x, p.y)
                                  < Manhattan(w.agents[k].x, w.agents[k].y, q.x, q.y)
            IN StableSort(emptyTargets, Nearer)
        tries == Flatten([i \in 1..Len(infos) |->
                     [j \in 1..Len(emptyTargets) |->
                         [info |-> i, agent |-> infos[i].agent,
                          target |-> sortedTargets(infos[i].agent)[j]]]])
        pathOf(tr) == FindPath(w, ReassignGrid(w, {tr.agent}), AgentPos(w, tr.agent), tr.target)
        out(tr) == IF tr.target.x = w.agents[tr.agent].targetX
                      /\ tr.target.y = w.agents[tr.agent].targetY THEN "fail"
                   ELSE IF Len(pathOf(tr)) > 1 THEN "ok" ELSE "fail"
        first == FirstOutcome([i \in 1..Len(tries) |-> out(tries[i])])
    IN IF first = 0 THEN [world |-> w, result |-> FALSE]
       ELSE LET tr == tries[first]
            IN [world |-> CalculatePaths(SetTarget(w, tr.agent, tr.target, pathOf(tr)),
                                         infos[tr.info].blocking),
                result |-> TRUE]

\* Third strategy: an agent not at its target takes another empty target.
BlockedReassignment(w) ==
    LET tries == Pairs(agentsNotAtTargetOf(w), emptyTargetsOf(w))
        pathOf(tr) == FindPath(w, ReassignGrid(w, {tr.agent}), AgentPos(w, tr.agent), tr.target)
        out(tr) == IF tr.target.x = w.agents[tr.agent].targetX
                      /\ tr.target.y = w.agents[tr.agent].targetY THEN "fail"
                   ELSE IF Len(pathOf(tr)) > 1 THEN "ok" ELSE "fail"
        first == FirstOutcome([i \in 1..Len(tries) |-> out(tries[i])])
    IN IF first = 0 THEN [world |-> w, result |-> FALSE]
       ELSE [world |-> SetTarget(w, tries[first].agent, tries[first].target,
                                 pathOf(tries[first])),
             result |-> TRUE]

\* Fourth strategy, without empty targets: two agents exchange their targets
\* if each can reach the other's; pairs is the list of pairs to try.
SwapTargets(w, pairs) ==
    LET path1(pr) == FindPath(w, ReassignGrid(w, {pr.agent, pr.target}),
                              AgentPos(w, pr.agent), TargetOf(w.agents[pr.target]))
        path2(pr) == FindPath(w, ReassignGrid(w, {pr.agent, pr.target}),
                              AgentPos(w, pr.target), TargetOf(w.agents[pr.agent]))
        out(pr) == IF PlannerThrows(w, TargetOf(w.agents[pr.target]))
                      \/ PlannerThrows(w, TargetOf(w.agents[pr.agent])) THEN "throw"
                   ELSE IF Len(path1(pr)) > 1 /\ Len(path2(pr)) > 1 THEN "ok" ELSE "fail"
        outs == [i \in 1..Len(pairs) |-> out(pairs[i])]
        first == FirstOutcome(outs)
    IN IF first = 0 THEN [world |-> w, result |-> FALSE]
       ELSE IF outs[first] = "throw" THEN Thrown(w)
       ELSE LET pr == pairs[first]
                t1 == TargetOf(w.agents[pr.agent])
                t2 == TargetOf(w.agents[pr.target])
            IN [world |-> SetTarget(SetTarget(w, pr.agent, t2, path1(pr)),
                                    pr.target, t1, path2(pr)),
                result |-> TRUE]

\* tryTargetReassignment(); [world, result].  An exception of the planner
\* leaves through simulationStep's catch: world.threw.
tryTargetReassignment(w) ==
    LET distributed == w.currentDecisionMode = DECISION_DISTRIBUTED
        w1 == IF distributed THEN BoostForReassignment(w) ELSE w
        infos == blockingAgentsAtTargetsOf(w1)
        notAt == agentsNotAtTargetOf(w1)
        first == IF distributed THEN DistributedReassignment(w1)
                 ELSE [world |-> w1, result |-> FALSE]
        chain == ChainReassignment(w1, infos)
        second == BlockerReassignment(w1, infos)
        third == BlockedReassignment(w1)
        \* In a pair of the fourth strategy, target names the second agent.
        withResting == Pairs(notAt, agentsAtTargetOf(w1))
        amongBlocked == Flatten([i \in 1..Len(notAt) |->
                            [j \in 1..(Len(notAt) - i) |->
                                [agent |-> notAt[i], target |-> notAt[i + j]]]])
    IN IF first.result THEN first
       ELSE IF chain.result \/ chain.world.threw THEN chain
       ELSE IF second.result THEN second
       ELSE IF third.result THEN third
       ELSE IF Len(emptyTargetsOf(w1)) = 0 THEN SwapTargets(w1, withResting \o amongBlocked)
       ELSE [world |-> w1, result |-> FALSE]

\* ------------------------------------------------------- escalation tactics
\* An agent's change of cell: the grid follows, and the move is recorded in
\* moves, the list of the position changes of the current tick.
MoveAgent(w, k, to) ==
    LET a == w.agents[k]
        emptied == [w.grid EXCEPT ![a.y][a.x] = CELL_EMPTY]
    IN [w EXCEPT !.grid = [emptied EXCEPT ![to.y][to.x] = CELL_AGENT],
                 !.agents[k].x = to.x,
                 !.agents[k].y = to.y,
                 !.moves = Append(@, [agent |-> k, from |-> Pos(a.x, a.y), to |-> to])]

IsOccupiedByOther(w, k, cx, cy) ==
    \E j \in 1..Len(w.agents) : j # k /\ w.agents[j].x = cx /\ w.agents[j].y = cy

\* Manhattan distance of a cell to an agent's target, null counting as 0.
DistToTarget(a, cx, cy) == Manhattan(cx, cy, Num(a.targetX), Num(a.targetY))

\* tryAgentSwapping(stuckAgents): the first pair of stuck agents at Manhattan
\* distance 1 whose exchange lowers the sum of their distances to their
\* targets exchanges cells; both plan again.  [world, result].
tryAgentSwapping(w, stuckAgents) ==
    LET n == Len(stuckAgents)
        pairs == Flatten([i \in 1..n |-> [j \in 1..(n - i) |->
                     [agent1 |-> stuckAgents[i], agent2 |-> stuckAgents[i + j]]]])
        Swaps(pr) ==
            LET a1 == w.agents[pr.agent1]
                a2 == w.agents[pr.agent2]
            IN /\ Manhattan(a1.x, a1.y, a2.x, a2.y) = 1
               /\ DistToTarget(a1, a2.x, a2.y) + DistToTarget(a2, a1.x, a1.y)
                    < DistToTarget(a1, a1.x, a1.y) + DistToTarget(a2, a2.x, a2.y)
        first == FirstOutcome([i \in 1..Len(pairs) |->
                                  IF Swaps(pairs[i]) THEN "ok" ELSE "fail"])
    IN IF first = 0 THEN [world |-> w, result |-> FALSE]
       ELSE LET k1 == pairs[first].agent1
                k2 == pairs[first].agent2
                a1 == w.agents[k1]
                a2 == w.agents[k2]
                swapped == [w EXCEPT
                    !.grid = [[w.grid EXCEPT ![a1.y][a1.x] = CELL_AGENT]
                                      EXCEPT ![a2.y][a2.x] = CELL_AGENT],
                    !.agents[k1].x = a2.x, !.agents[k1].y = a2.y,
                    !.agents[k2].x = a1.x, !.agents[k2].y = a1.y,
                    !.moves = @ \o << [agent |-> k1, from |-> Pos(a1.x, a1.y),
                                       to |-> Pos(a2.x, a2.y)],
                                      [agent |-> k2, from |-> Pos(a2.x, a2.y),
                                       to |-> Pos(a1.x, a1.y)] >>]
            IN [world |-> calculatePath(calculatePath(swapped, k1), k2), result |-> TRUE]

\* The cells a random move of agent k may take: the neighbours under the
\* current topology that are no wall and hold no other agent.
RandomMoveOptions(w, k) ==
    LET Open(n) == w.grid[n.y][n.x] # CELL_WALL /\ ~IsOccupiedByOther(w, k, n.x, n.y)
    IN SelectSeq(getNeighbors(w.agents[k].x, w.agents[k].y, w.currentTopology, GridSize), Open)

\* tryRandomMoves(stuckAgents).  The neighbours are shuffled with a random
\* comparator, so the first open neighbour of the shuffled list is any open
\* neighbour: pick chooses among them.  The first stuck agent with an open
\* neighbour moves and plans from an empty path.  [world, result].
tryRandomMoves(w, stuckAgents, pick) ==
    LET first == FirstOutcome([i \in 1..Len(stuckAgents) |->
                     IF Len(RandomMoveOptions(w, stuckAgents[i])) > 0 THEN "ok" ELSE "fail"])
    IN IF first = 0 THEN [world |-> w, result |-> FALSE]
       ELSE LET k == stuckAgents[first]
                options == RandomMoveOptions(w, k)
                to == options[((pick - 1) % Len(options)) + 1]
                moved == [MoveAgent(w, k, to) EXCEPT !.agents[k].path = <<>>]
            IN [world |-> calculatePath(moved, k), result |-> TRUE]

\* moveAgentTemporarilyForced(agent): an agent at its target steps to the open
\* neighbour farthest from the target, with the path <<new cell, target>>.
\* [world, result].
moveAgentTemporarilyForced(w, k) ==
    LET a == w.agents[k]
        Farther(p, q) == DistToTarget(a, p.x, p.y) > DistToTarget(a, q.x, q.y)
        availablePositions == StableSort(RandomMoveOptions(w, k), Farther)
    IN IF ~AtTarget(a) \/ Len(availablePositions) = 0 THEN [world |-> w, result |-> FALSE]
       ELSE LET tempPos == availablePositions[1]
            IN [world |-> [MoveAgent(w, k, tempPos) EXCEPT
                              !.agents[k].path = <<tempPos, Pos(a.targetX, a.targetY)>>],
                result |-> TRUE]

\* tryMoveBlockingAgents(): the agents at their targets are tried in turn,
\* first those that block an agent with a path (on its next step, on its
\* path, or under Moore next to a cell of its path), then the others by
\* falling id; the first that can be forced off its target is, and every
\* agent that was not at its target plans again.  A failed try changes
\* nothing, so trying an agent again is of no effect.  [world, result].
tryMoveBlockingAgents(w) ==
    LET agentsAtTargets == agentsAtTargetOf(w)
        agentsNotAtTargets == agentsNotAtTargetOf(w)
        HasPath(b) == Len(w.agents[b].path) > 1
        blocks(tg, b) ==
            LET ta == w.agents[tg]
                path == w.agents[b].path
            IN \/ path[2].x = ta.x /\ path[2].y = ta.y
               \/ \E i \in 1..Len(path) : path[i].x = ta.x /\ path[i].y = ta.y
               \/ /\ w.currentTopology = TOPOLOGY_MOORE
                  /\ \E i \in 1..Len(path) :
                        /\ Abs(path[i].x - ta.x) <= 1 /\ Abs(path[i].y - ta.y) <= 1
                        /\ ~(path[i].x = ta.x /\ path[i].y = ta.y)
        blockingAgents(b) == LET Blocks(tg) == blocks(tg, b)
                             IN SelectSeq(agentsAtTargets, Blocks)
        blocked == SelectSeq(agentsNotAtTargets, HasPath)
        Later(j, k) == j > k
        order == Flatten([i \in 1..Len(blocked) |-> blockingAgents(blocked[i])])
                 \o StableSort(agentsAtTargets, Later)
        first == FirstOutcome([i \in 1..Len(order) |->
                     IF moveAgentTemporarilyForced(w, order[i]).result THEN "ok" ELSE "fail"])
    IN IF first = 0 THEN [world |-> w, result |-> FALSE]
       ELSE [world |-> CalculatePaths(moveAgentTemporarilyForced(w, order[first]).world,
                                      agentsNotAtTargets),
             result |-> TRUE]

\* How many intermediate cells findTwoPhasePathThroughAgents tries.
TWO_PHASE_TRIES == 5

\* findTwoPhasePathThroughAgents(agent): an empty cell farther than 2 from
\* every other agent at its target, best score first (distance to the agent
\* plus 1.5 times the distance to the target, doubled here), reachable past
\* the agents at their targets and with a path on to the target, gives the
\* agent the path to that cell.  [world, result].
findTwoPhasePathThroughAgents(w, k) ==
    LET a == w.agents[k]
        cells == [i \in 1..(GridSize * GridSize) |->
                     Pos((i - 1) % GridSize, (i - 1) \div GridSize)]
        Candidate(c) ==
            /\ w.grid[c.y][c.x] = CELL_EMPTY
            /\ ~\E j \in 1..Len(w.agents) :
                   /\ j # k /\ AtTarget(w.agents[j])
                   /\ Manhattan(c.x, c.y, w.agents[j].x, w.agents[j].y) <= 2
        score(c) == 2 * Manhattan(c.x, c.y, a.x, a.y) + 3 * DistToTarget(a, c.x, c.y)
        Better(c, d) == score(c) < score(d)
        sorted == StableSort(SelectSeq(cells, Candidate), Better)
        top == SubSeq(sorted, 1, Min2(TWO_PHASE_TRIES, Len(sorted)))
        pathToIntermediate(c) == FindPath(w, ReassignGrid(w, {k}), Pos(a.x, a.y), c)
        out(c) == IF Len(pathToIntermediate(c)) <= 1 THEN "fail"
                  ELSE IF PlannerThrows(w, TargetOf(a)) THEN "throw"
                  ELSE IF Len(FindPath(w, WallsOnly(w.grid), c, TargetOf(a))) > 1 THEN "ok"
                  ELSE "fail"
        outs == [i \in 1..Len(top) |-> out(top[i])]
        first == FirstOutcome(outs)
    IN IF first = 0 THEN [world |-> w, result |-> FALSE]
       ELSE IF outs[first] = "throw" THEN Thrown(w)
       ELSE [world |-> [w EXCEPT !.agents[k].path = pathToIntermediate(top[first])],
             result |-> TRUE]

\* ---------------------------------------------------------- DeadlockHandler
\* The handler keeps the grid and the agents array it was constructed with.
\* While the page has not bound grid or agents to a new array, the handler's
\* is the page's (handlerGridAliased, handlerAgentsAliased); afterwards it is
\* the array as it was left (handlerGrid, handlerAgents), which only the
\* handler still writes.  waitingTime and previousPositions are maps over the
\* ids 0..MaxAgents-1, NULL and NoPos for no entry.
waitingThreshold == 3

HandlerGridOf(w) == IF w.handlerGridAliased THEN w.grid ELSE w.handlerGrid
HandlerAgentsOf(w) == IF w.handlerAgentsAliased THEN w.agents ELSE w.handlerAgents

SetHandlerAgent(w, k, a) ==
    IF w.handlerAgentsAliased THEN [w EXCEPT !.agents[k] = a]
    ELSE [w EXCEPT !.handlerAgents[k] = a]

\* updatePositionTracking().  The count is only ever compared with the
\* threshold (>= 3, > 2), so it is kept at the threshold once there.
updatePositionTracking(w) ==
    LET as == HandlerAgentsOf(w)
        Tracked(id) == id + 1 <= Len(as)
    IN [w EXCEPT
          !.waitingTime = [id \in DOMAIN w.waitingTime |->
              IF ~Tracked(id) THEN w.waitingTime[id]
              ELSE IF w.previousPositions[id] = Pos(as[id + 1].x, as[id + 1].y)
                   THEN Min2(Num(w.waitingTime[id]) + 1, waitingThreshold)
                   ELSE 0],
          !.previousPositions = [id \in DOMAIN w.previousPositions |->
              IF Tracked(id) THEN Pos(as[id + 1].x, as[id + 1].y)
              ELSE w.previousPositions[id]]]

\* The map agentWaitingFor of detectCircularDeadlocks: an agent with a path
\* waits for the last of the other agents that stand on its next step; NULL
\* for no entry.
agentWaitingForOf(as) ==
    [id \in 0..(Len(as) - 1) |->
        LET a == as[id + 1]
            on == IF Len(a.path) <= 1 THEN {}
                  ELSE {j \in 0..(Len(as) - 1) :
                           j # id /\ as[j + 1].x = a.path[2].x /\ as[j + 1].y = a.path[2].y}
        IN IF on = {} THEN NULL ELSE CHOOSE j \in on : \A i \in on : i <= j]

\* The walk of detectCircularDeadlocks from one agent: visited is a list that
\* starts with the agent; the walk follows the map while the current id has
\* an entry, and returns visited when it meets an id already in it, and <<>>
\* when it runs out of the map.
RECURSIVE CycleWalk(_, _, _)
CycleWalk(waitingFor, current, visited) ==
    IF current \notin DOMAIN waitingFor \/ waitingFor[current] = NULL THEN <<>>
    ELSE IF current \in Range(visited) THEN visited
    ELSE CycleWalk(waitingFor, waitingFor[current], Append(visited, current))

\* Append to a list the elements of another that it does not hold.
RECURSIVE AppendNew(_, _)
AppendNew(list, more) ==
    IF more = <<>> THEN list
    ELSE AppendNew(IF Head(more) \in Range(list) THEN list ELSE Append(list, Head(more)),
                   Tail(more))

\* detectCircularDeadlocks(deadlockedAgents)
RECURSIVE detectCircularDeadlocks(_, _, _)
detectCircularDeadlocks(waitingFor, ids, deadlockedAgents) ==
    IF ids = <<>> THEN deadlockedAgents
    ELSE LET agentId == Head(ids)
             found == IF waitingFor[agentId] = NULL THEN <<>>
                      ELSE CycleWalk(waitingFor, waitingFor[agentId], <<agentId>>)
         IN detectCircularDeadlocks(waitingFor, Tail(ids), AppendNew(deadlockedAgents, found))

\* detectDeadlocks(): the ids that waited for the threshold, in the order of
\* the map (ids enter it in rising order), then the cycles.
detectDeadlocks(w) ==
    LET as == HandlerAgentsOf(w)
        allIds == [i \in 1..MaxAgents |-> i - 1]
        Waited(id) == w.waitingTime[id] # NULL /\ w.waitingTime[id] >= waitingThreshold
        Present(id) == id + 1 <= Len(as)
    IN detectCircularDeadlocks(agentWaitingForOf(as), SelectSeq(allIds, Present),
                               SelectSeq(allIds, Waited))

\* createModifiedGrid(): the handler's grid with the cell of every agent set
\* to 1.
createModifiedGrid(w) ==
    LET g == HandlerGridOf(w)
        as == HandlerAgentsOf(w)
    IN [cy \in DOMAIN g |-> [cx \in DOMAIN g[cy] |->
           IF \E j \in 1..Len(as) : as[j].x = cx /\ as[j].y = cy THEN 1 ELSE g[cy][cx]]]

\* findAlternativePath(agent), by A* without a topology; [world, result].
findAlternativePath(w, k) ==
    LET a == HandlerAgentsOf(w)[k]
        newPath == AStarFindPath(createModifiedGrid(w), TOPOLOGY_VON_NEUMANN,
                                 Pos(a.x, a.y), TargetOf(a))
    IN IF Len(newPath) > 1
       THEN [world |-> SetHandlerAgent(w, k, [a EXCEPT !.path = newPath]), result |-> TRUE]
       ELSE [world |-> w, result |-> FALSE]

\* temporaryRetreat(agent): the open cell among Up, Right, Down, Left nearest
\* to the target; [world, result].
temporaryRetreat(w, k) ==
    LET g == HandlerGridOf(w)
        as == HandlerAgentsOf(w)
        a == as[k]
        directions == << Pos(0, -1), Pos(1, 0), Pos(0, 1), Pos(-1, 0) >>
        cells == [i \in 1..Len(directions) |-> Pos(a.x + directions[i].x, a.y + directions[i].y)]
        Open(c) == /\ c.x >= 0 /\ c.x < GridCols(g) /\ c.y >= 0 /\ c.y < GridRows(g)
                   /\ g[c.y][c.x] # 1
                   /\ ~\E j \in 1..Len(as) : j # k /\ as[j].x = c.x /\ as[j].y = c.y
        Nearer(c, d) == DistToTarget(a, c.x, c.y) < DistToTarget(a, d.x, d.y)
        retreatOptions == StableSort(SelectSeq(cells, Open), Nearer)
    IN IF Len(retreatOptions) > 0
       THEN [world |-> SetHandlerAgent(w, k,
                          [a EXCEPT !.path = <<Pos(a.x, a.y), retreatOptions[1]>>,
                                    !.isRetreating = TRUE]),
             result |-> TRUE]
       ELSE [world |-> w, result |-> FALSE]

\* createClearedPathForAgent(agent)
createClearedPathForAgent(w, k) ==
    LET a == HandlerAgentsOf(w)[k]
        g == HandlerGridOf(w)
        clearedGrid == [cy \in DOMAIN g |-> [cx \in DOMAIN g[cy] |->
                           IF g[cy][cx] = 1 THEN 1 ELSE 0]]
        path == AStarFindPath(clearedGrid, TOPOLOGY_VON_NEUMANN, Pos(a.x, a.y), TargetOf(a))
    IN IF Len(path) > 1 THEN SetHandlerAgent(w, k, [a EXCEPT !.path = path]) ELSE w

\* The loop of resolveDeadlocks over the sorted ids.
RECURSIVE ResolveEach(_, _)
ResolveEach(w, ids) ==
    IF ids = <<>> THEN w
    ELSE LET k == Head(ids) + 1
         IN IF k > Len(HandlerAgentsOf(w)) THEN ResolveEach(w, Tail(ids))
            ELSE LET alt == findAlternativePath(w, k)
                     retreat == temporaryRetreat(w, k)
                 IN ResolveEach(IF alt.result THEN alt.world
                                ELSE IF retreat.result THEN retreat.world
                                ELSE createClearedPathForAgent(w, k),
                                Tail(ids))

IdLess(a, b) == a < b

\* resolveDeadlocks(deadlockedAgentIds)
resolveDeadlocks(w, deadlockedAgentIds) ==
    IF Len(deadlockedAgentIds) = 0 THEN w
    ELSE ResolveEach([w EXCEPT !.deadlockCount = @ + 1],
                     StableSort(deadlockedAgentIds, IdLess))

\* ------------------------------------------------------------ simulationStep
\* pauseSimulation(), with the way the run ended for the record.
pauseSimulation(w) == [w EXCEPT !.isSimulationRunning = FALSE]
Ended(w, how) == [pauseSimulation(w) EXCEPT !.outcome = how]

\* failedDeadlockResolutionAttempts is compared with this limit only.
FAILED_ATTEMPTS_LIMIT == 5
\* repeatedDeadlockCount at which the sequential run pauses and restarts.
REPEATED_DEADLOCK_LIMIT == 3

AllAtTarget(w) == \A k \in 1..Len(w.agents) : AtTarget(w.agents[k])

\* The sequential-mode test of one deadlocked id: "yes", "no" or "throw".
TrueDeadlock(w, agentId) ==
    IF agentId + 1 > Len(w.agents) THEN "no"
    ELSE LET k == agentId + 1
             a == w.agents[k]
             clearedGrid ==
                 IF w.currentDecisionMode = DECISION_DISTRIBUTED
                 THEN [cy \in DOMAIN w.grid |-> [cx \in DOMAIN w.grid[cy] |->
                          IF /\ a.visibilityRange < Infinity
                             /\ 2 * Manhattan(cx, cy, a.x, a.y) > 3 * a.visibilityRange
                             /\ ~(cx = a.targetX /\ cy = a.targetY)
                          THEN CELL_WALL ELSE WallsOnly(w.grid)[cy][cx]]]
                 ELSE WallsOnly(w.grid)
         IN IF Len(a.path) > 1 /\ IsOccupiedByOther(w, k, a.path[2].x, a.path[2].y) THEN "no"
            ELSE IF PlannerThrows(w, TargetOf(a)) THEN "throw"
            ELSE IF Len(FindPath(w, clearedGrid, Pos(a.x, a.y), TargetOf(a))) <= 1 THEN "yes"
            ELSE "no"

\* generateDeadlockSignature(deadlockedAgentIds): the ids in rising order,
\* each with the agent's cell and target, or alone for an unknown id.
generateDeadlockSignature(w, deadlockedAgentIds) ==
    LET sortedIds == StableSort(deadlockedAgentIds, IdLess)
    IN [i \in 1..Len(sortedIds) |->
           IF sortedIds[i] + 1 > Len(w.agents) THEN [id |-> sortedIds[i]]
           ELSE [id |-> sortedIds[i],
                 at |-> AgentPos(w, sortedIds[i] + 1),
                 target |-> TargetOf(w.agents[sortedIds[i] + 1])]]

\* The order of the move loop: agents not at their targets first, then by
\* Manhattan distance to the target.
prioritizedAgentsOf(w) ==
    LET dist(k) == DistToTarget(w.agents[k], w.agents[k].x, w.agents[k].y)
        Before(j, k) ==
            IF AtTarget(w.agents[j]) /\ ~AtTarget(w.agents[k]) THEN FALSE
            ELSE IF ~AtTarget(w.agents[j]) /\ AtTarget(w.agents[k]) THEN TRUE
            ELSE dist(j) < dist(k)
    IN StableSort(AgentIndices(w), Before)

\* The distributed, sequential prologue of the move loop: an agent not at its
\* target plans again if it has no path, or with probability 0.2 (recalc is
\* the set of agents for which the draw said so).
RECURSIVE DistributedReplan(_, _, _)
DistributedReplan(w, ks, recalc) ==
    IF ks = <<>> THEN w
    ELSE LET k == Head(ks)
             a == w.agents[k]
         IN DistributedReplan(
                IF ~AtTarget(a) /\ (Len(a.path) <= 1 \/ k \in recalc)
                THEN calculatePath(w, k) ELSE w,
                Tail(ks), recalc)

\* The first other agent on the cell, 0 if none; in distributed mode only an
\* agent within the visibility range of agent k counts.
occupyingAgentOf(w, k, nextStep) ==
    LET a == w.agents[k]
        on == {j \in 1..Len(w.agents) :
                  /\ j # k /\ w.agents[j].x = nextStep.x /\ w.agents[j].y = nextStep.y
                  /\ (w.currentDecisionMode = DECISION_DISTRIBUTED =>
                         Manhattan(w.agents[j].x, w.agents[j].y, a.x, a.y)
                             <= a.visibilityRange)}
    IN IF on = {} THEN 0 ELSE CHOOSE j \in on : \A i \in on : j <= i

\* The body of the move loop for one agent that is not at its target and has
\* a path: step to path[1] unless an agent is seen there.  The cell is not
\* tested for a wall.
StepAgent(w, k, coin) ==
    LET a == w.agents[k]
        nextStep == a.path[2]
        occupyingAgent == occupyingAgentOf(w, k, nextStep)
    IN IF occupyingAgent = 0
       THEN LET moved == [MoveAgent(w, k, nextStep) EXCEPT !.agents[k].path = Tail(a.path)]
                arrived == IF AtTarget(moved.agents[k])
                           THEN [moved EXCEPT !.agents[k].path = <<nextStep>>]
                           ELSE moved
                b == arrived.agents[k]
            IN IF /\ w.currentDecisionMode = DECISION_DISTRIBUTED
                  /\ b.x # b.targetX /\ b.y # b.targetY
                  /\ (~w.sequentialMovementMode \/ coin)
               THEN calculatePath(arrived, k) ELSE arrived
       ELSE IF AtTarget(w.agents[occupyingAgent]) THEN calculatePath(w, k)
       ELSE IF w.waitingTime[k - 1] # NULL /\ w.waitingTime[k - 1] > 2 THEN calculatePath(w, k)
       ELSE w

\* The move loop over the prioritized agents; moved counts the agents that
\* stepped (agentsMovedCount).  [world, moved].
RECURSIVE MoveLoop(_, _, _, _)
MoveLoop(w, ks, moved, coin) ==
    IF ks = <<>> THEN [world |-> w, moved |-> moved]
    ELSE LET k == Head(ks)
             a == w.agents[k]
         IN IF AtTarget(a)
            THEN MoveLoop([w EXCEPT !.agents[k].path = <<Pos(a.x, a.y)>>], Tail(ks), moved, coin)
            ELSE IF w.sequentialMovementMode /\ moved > 0 THEN [world |-> w, moved |-> moved]
            ELSE LET w1 == IF a.isRetreating /\ Len(a.path) <= 1
                           THEN [w EXCEPT !.agents[k].isRetreating = FALSE] ELSE w
                 IN IF Len(a.path) <= 1
                    THEN MoveLoop(IF a.targetX # NULL /\ a.targetY # NULL
                                  THEN calculatePath(w1, k) ELSE w1,
                                  Tail(ks), moved, coin)
                    ELSE LET w2 == StepAgent(w1, k, coin)
                         IN MoveLoop(w2, Tail(ks),
                                     IF Len(w2.moves) > Len(w1.moves) THEN moved + 1 ELSE moved,
                                     coin)

\* Detection and resolution of deadlocks at the head of the step; done says
\* that the step returned here.  [world, done].
DeadlockStage(w) ==
    LET detected == detectDeadlocks(w)
        tests == [i \in 1..Len(detected) |-> TrueDeadlock(w, detected[i])]
        thrown == w.sequentialMovementMode /\ \E i \in 1..Len(tests) :
                      tests[i] = "throw" /\ \A j \in 1..(i - 1) : tests[j] # "throw"
        True(id) == TrueDeadlock(w, id) = "yes"
        deadlockedAgents == IF w.sequentialMovementMode /\ Len(detected) > 0
                            THEN SelectSeq(detected, True) ELSE detected
        deadlockSignature == generateDeadlockSignature(w, deadlockedAgents)
        tracked == w.sequentialMovementMode
                   /\ w.currentAlgorithm \in {"astar", "bfs"}
        repeated == tracked /\ deadlockSignature = w.lastDeadlockSignature
        w1 == IF ~tracked THEN w
              ELSE IF repeated THEN [w EXCEPT !.repeatedDeadlockCount = @ + 1]
              ELSE [w EXCEPT !.repeatedDeadlockCount = 1,
                             !.lastDeadlockSignature = deadlockSignature]
        resolved == resolveDeadlocks(w1, deadlockedAgents)
    IN IF thrown THEN [world |-> [w EXCEPT !.threw = TRUE], done |-> TRUE]
       ELSE IF Len(deadlockedAgents) = 0
            THEN [world |-> [w EXCEPT !.lastDeadlockSignature = <<>>,
                                      !.repeatedDeadlockCount = 0],
                  done |-> FALSE]
       ELSE IF repeated /\ w1.repeatedDeadlockCount >= REPEATED_DEADLOCK_LIMIT
            THEN [world |-> [Ended(w1, "restart") EXCEPT
                                !.repeatedDeadlockCount = 0,
                                !.lastDeadlockSignature = <<>>,
                                !.pendingRestarts = @ \cup {"restart"}],
                  done |-> TRUE]
       ELSE [world |-> [resolved EXCEPT !.deadlocksResolvedDisplay = resolved.deadlockCount],
             done |-> FALSE]

\* The stuck agents: not at the target and without a path.
stuckAgentsOf(w) ==
    LET Stuck(k) == ~AtTarget(w.agents[k]) /\ Len(w.agents[k].path) <= 1
    IN SelectSeq(AgentIndices(w), Stuck)

\* The distributed, sequential answer to a step without a move: every agent
\* not at its target sees 2 farther, plans, and has its range restored later.
RECURSIVE WidenAndReplan(_, _)
WidenAndReplan(w, ks) ==
    IF ks = <<>> THEN w
    ELSE LET k == Head(ks)
             originalVisibility == w.agents[k].visibilityRange
             widened == [w EXCEPT !.agents[k].visibilityRange =
                                      AddVisibility(@, VISIBILITY_BOOST)]
             planned == calculatePath(widened, k)
         IN WidenAndReplan(
                [planned EXCEPT !.pendingRestores =
                    Append(@, [objs |-> <<k>>, orig |-> (k :> originalVisibility)])],
                Tail(ks))

\* Forced displacement for the stuck agents: the first agent at its target
\* within 2 of a stuck agent's target that can be forced off moves, and the
\* stuck agent plans.  [world, result].
ForceForStuck(w, stuckAgents) ==
    LET near(s) == LET Near(j) ==
                         /\ AtTarget(w.agents[j])
                         /\ DistToTarget(w.agents[s], w.agents[j].x, w.agents[j].y) <= 2
                   IN SelectSeq(AgentIndices(w), Near)
        tries == Flatten([i \in 1..Len(stuckAgents) |->
                     [j \in 1..Len(near(stuckAgents[i])) |->
                         [agent |-> stuckAgents[i], target |-> near(stuckAgents[i])[j]]]])
        first == FirstOutcome([i \in 1..Len(tries) |->
                     IF moveAgentTemporarilyForced(w, tries[i].target).result
                     THEN "ok" ELSE "fail"])
    IN IF first = 0 THEN [world |-> w, result |-> FALSE]
       ELSE [world |-> calculatePath(moveAgentTemporarilyForced(w, tries[first].target).world,
                                     tries[first].agent),
             result |-> TRUE]

\* Two-phase and cleared paths for every stuck agent in turn; [world, result].
RECURSIVE ClearedPaths(_, _, _)
ClearedPaths(w, ks, found) ==
    IF ks = <<>> \/ w.threw THEN [world |-> w, result |-> found]
    ELSE LET twoPhase == findTwoPhasePathThroughAgents(w, Head(ks))
             ignoring == findPathIgnoringAgents(w, Head(ks))
         IN IF twoPhase.result \/ twoPhase.world.threw
            THEN ClearedPaths(twoPhase.world, Tail(ks), found \/ twoPhase.result)
            ELSE ClearedPaths(ignoring.world, Tail(ks), found \/ ignoring.result)

With(r, tactic) == [r.world EXCEPT !.tactic = tactic]

\* The step after a move loop in which no agent moved.
NoMoveStage(w0, pick) ==
    LET w == [w0 EXCEPT !.failedDeadlockResolutionAttempts =
                            Min2(@ + 1, FAILED_ATTEMPTS_LIMIT)]
        agentsWithNoMoves == Len(stuckAgentsOf(w))
        reassign == tryTargetReassignment(w)
        w1 == reassign.world
        blocking == tryMoveBlockingAgents(w1)
        stuckAgents == stuckAgentsOf(w1)
        forced == ForceForStuck(w1, stuckAgents)
        swap == IF Len(stuckAgents) >= 2 THEN tryAgentSwapping(w1, stuckAgents)
                ELSE [world |-> w1, result |-> FALSE]
        cleared == ClearedPaths(w1, stuckAgents, FALSE)
        w2 == cleared.world
        random == tryRandomMoves(w2, stuckAgents, pick)
        last == tryTargetReassignment(w2)
    IN IF w.currentDecisionMode = DECISION_DISTRIBUTED /\ w.sequentialMovementMode
       THEN [WidenAndReplan(w, agentsNotAtTargetOf(w)) EXCEPT !.tactic = "widen"]
       ELSE IF w.failedDeadlockResolutionAttempts >= FAILED_ATTEMPTS_LIMIT
            THEN [Ended(w, "restart") EXCEPT
                     !.failedDeadlockResolutionAttempts = 0,
                     !.pendingRestarts = @ \cup {"sequential"}]
       ELSE IF reassign.result \/ w1.threw THEN With(reassign, "reassign")
       ELSE IF blocking.result THEN With(blocking, "moveBlocking")
       ELSE IF agentsWithNoMoves > 0
            THEN IF forced.result THEN With(forced, "forced")
                 ELSE IF swap.result THEN With(swap, "swap")
                 ELSE IF cleared.result \/ w2.threw THEN With(cleared, "cleared")
                 ELSE IF random.result
                      THEN [random.world EXCEPT !.tactic = "random",
                                                !.randomChoices = Len(RandomMoveOptions(w2,
                                                     random.world.moves[1].agent))]
                 ELSE IF last.result \/ last.world.threw THEN With(last, "reassign")
                 ELSE Ended(last.world, "stuck")
       ELSE LET again == tryTargetReassignment(w1)
            IN IF again.result \/ again.world.threw THEN With(again, "reassign")
               ELSE Ended(again.world, "stuck")

\* simulationStep().  rnd holds the draws of Math.random of the step: recalc
\* (the agents whose 0.2 draw succeeded), coin (the 0.5 draw after a move) and
\* pick (the choice of tryRandomMoves).  moves, tactic and outcome record what
\* the step did.  An exception is caught at the end and pauses the run.
simulationStep(w0, rnd) ==
    LET w == updatePositionTracking([w0 EXCEPT !.moves = <<>>, !.tactic = "",
                                               !.outcome = "", !.randomChoices = 0])
        stage == DeadlockStage(w)
        w1 == stage.world
        prioritizedAgents == prioritizedAgentsOf(w1)
        w2 == IF w1.currentDecisionMode = DECISION_DISTRIBUTED /\ w1.sequentialMovementMode
              THEN DistributedReplan(w1, prioritizedAgents, rnd.recalc) ELSE w1
        loop == MoveLoop(w2, prioritizedAgents, 0, rnd.coin)
        w3 == loop.world
        result == IF AllAtTarget(w) THEN Ended(w, "success")
                  ELSE IF stage.done THEN w1
                  ELSE IF AllAtTarget(w3) THEN Ended(w3, "success")
                  ELSE IF loop.moved = 0 THEN NoMoveStage(w3, rnd.pick)
                  ELSE w3
    IN IF result.threw THEN Ended([result EXCEPT !.threw = FALSE], "error") ELSE result

\* ------------------------------------------------------------- run control
\* assignTargets(): nothing without a target for every agent; otherwise each
\* assignment in turn gives the agent its target and plans its path.
RECURSIVE AssignEach(_, _)
AssignEach(w, assignments) ==
    IF assignments = <<>> THEN w
    ELSE LET k == Head(assignments).agent
             target == w.targetPositions[Head(assignments).target]
         IN AssignEach(calculatePath([w EXCEPT !.agents[k].targetX = target.x,
                                               !.agents[k].targetY = target.y], k),
                       Tail(assignments))

assignTargets(w) ==
    IF Len(w.targetPositions) < Len(w.agents) THEN w
    ELSE AssignEach(w, findOptimalAssignment([k \in 1..Len(w.agents) |-> AgentPos(w, k)],
                                             w.targetPositions, w.grid))

\* startSimulation()
startSimulation(w) ==
    IF w.isSimulationRunning \/ Len(w.agents) = 0 \/ Len(w.targetPositions) = 0 THEN w
    ELSE assignTargets([w EXCEPT !.failedDeadlockResolutionAttempts = 0,
                                 !.lastDeadlockSignature = <<>>,
                                 !.repeatedDeadlockCount = 0,
                                 !.isSimulationRunning = TRUE,
                                 !.outcome = ""])

\* ------------------------------------------------------------------- state
VARIABLES
    grid, agents, targetPositions,
    isSimulationRunning, sequentialMovementMode,
    currentDecisionMode, currentAlgorithm, currentTopology,
    failedDeadlockResolutionAttempts, lastDeadlockSignature, repeatedDeadlockCount,
    \* deadlockHandler: its counter, its maps, its grid and its agents
    deadlockCount, waitingTime, previousPositions,
    handlerGridAliased, handlerGrid, handlerAgentsAliased, handlerAgents,
    \* the text of the "deadlocks resolved" display
    deadlocksResolvedDisplay,
    \* timeouts that have not fired yet
    pendingRestores, pendingRestarts,
    \* what the last operation was ("step", "start" or "other") and, for a
    \* step, what it did
    lastOp, moves, tactic, outcome,
    \* how many more operations the specification of the page follows
    opsLeft

vars == << grid, agents, targetPositions, isSimulationRunning, sequentialMovementMode,
           currentDecisionMode, currentAlgorithm, currentTopology,
           failedDeadlockResolutionAttempts, lastDeadlockSignature, repeatedDeadlockCount,
           deadlockCount, waitingTime, previousPositions,
           handlerGridAliased, handlerGrid, handlerAgentsAliased, handlerAgents,
           deadlocksResolvedDisplay, pendingRestores, pendingRestarts,
           lastOp, moves, tactic, outcome, opsLeft >>

\* The globals as one record, for the operators above.
World ==
    [grid |-> grid, agents |-> agents, targetPositions |-> targetPositions,
     isSimulationRunning |-> isSimulationRunning,
     sequentialMovementMode |-> sequentialMovementMode,
     currentDecisionMode |-> currentDecisionMode,
     currentAlgorithm |-> currentAlgorithm,
     currentTopology |-> currentTopology,
     failedDeadlockResolutionAttempts |-> failedDeadlockResolutionAttempts,
     lastDeadlockSignature |-> lastDeadlockSignature,
     repeatedDeadlockCount |-> repeatedDeadlockCount,
     deadlockCount |-> deadlockCount, waitingTime |-> waitingTime,
     previousPositions |-> previousPositions,
     handlerGridAliased |-> handlerGridAliased, handlerGrid |-> handlerGrid,
     handlerAgentsAliased |-> handlerAgentsAliased, handlerAgents |-> handlerAgents,
     deadlocksResolvedDisplay |-> deadlocksResolvedDisplay,
     pendingRestores |-> pendingRestores, pendingRestarts |-> pendingRestarts,
     moves |-> moves, tactic |-> tactic, outcome |-> outcome,
     threw |-> FALSE, randomChoices |-> 0]

\* The next state is the record r, after operation op.
Commit(r, op) ==
    /\ grid' = r.grid
    /\ agents' = r.agents
    /\ targetPositions' = r.targetPositions
    /\ isSimulationRunning' = r.isSimulationRunning
    /\ sequentialMovementMode' = r.sequentialMovementMode
    /\ currentDecisionMode' = r.currentDecisionMode
    /\ currentAlgorithm' = r.currentAlgorithm
    /\ currentTopology' = r.currentTopology
    /\ failedDeadlockResolutionAttempts' = r.failedDeadlockResolutionAttempts
    /\ lastDeadlockSignature' = r.lastDeadlockSignature
    /\ repeatedDeadlockCount' = r.repeatedDeadlockCount
    /\ deadlockCount' = r.deadlockCount
    /\ waitingTime' = r.waitingTime
    /\ previousPositions' = r.previousPositions
    /\ handlerGridAliased' = r.handlerGridAliased
    /\ handlerGrid' = r.handlerGrid
    /\ handlerAgentsAliased' = r.handlerAgentsAliased
    /\ handlerAgents' = r.handlerAgents
    /\ deadlocksResolvedDisplay' = r.deadlocksResolvedDisplay
    /\ pendingRestores' = r.pendingRestores
    /\ pendingRestarts' = r.pendingRestarts
    /\ moves' = r.moves
    /\ tactic' = r.tactic
    /\ outcome' = r.outcome
    /\ lastOp' = op

\* createEmptyGrid(size)
createEmptyGrid(size) == [cy \in 0..(size - 1) |-> [cx \in 0..(size - 1) |-> CELL_EMPTY]]

\* Outside a step, nothing has moved and no step has ended.
Idle(w) == [w EXCEPT !.moves = <<>>, !.tactic = "", !.outcome = ""]

\* new DeadlockHandler(grid, agents)
NewHandler(w) ==
    [w EXCEPT !.deadlockCount = 0,
              !.waitingTime = [id \in 0..(MaxAgents - 1) |-> NULL],
              !.previousPositions = [id \in 0..(MaxAgents - 1) |-> NoPos],
              !.handlerGridAliased = TRUE, !.handlerGrid = <<>>,
              !.handlerAgentsAliased = TRUE, !.handlerAgents = <<>>]

\* The page binds grid to a new array: the handler keeps the old one.
RebindGrid(w, newGrid) ==
    [w EXCEPT !.grid = newGrid,
              !.handlerGridAliased = FALSE,
              !.handlerGrid = HandlerGridOf(w)]

\* The page binds agents to a new, empty array: the handler keeps the old one,
\* and the pending restorations only reach agents that are gone.
RebindAgents(w) ==
    [w EXCEPT !.agents = <<>>,
              !.handlerAgentsAliased = FALSE,
              !.handlerAgents = HandlerAgentsOf(w),
              !.pendingRestores = <<>>]

\* resetSimulation()
resetSimulation(w) ==
    [RebindGrid(RebindAgents(pauseSimulation(w)), createEmptyGrid(GridSize))
        EXCEPT !.targetPositions = <<>>, !.deadlocksResolvedDisplay = 0]

\* initializeGrid(), with manual generation
initializeGrid(w) ==
    NewHandler([resetSimulation(w) EXCEPT !.grid = createEmptyGrid(GridSize)])

\* ---------------------------------------------------------------- the editor
AgentAt(w, cx, cy) == \E k \in 1..Len(w.agents) : w.agents[k].x = cx /\ w.agents[k].y = cy
TargetAt(w, cx, cy) ==
    \E i \in 1..Len(w.targetPositions) :
        w.targetPositions[i].x = cx /\ w.targetPositions[i].y = cy

\* A sequence without its element i.
RemoveAt(s, i) == [j \in 1..(Len(s) - 1) |-> IF j < i THEN s[j] ELSE s[j + 1]]

\* addAgent(x, y)
addAgent(w, cx, cy) ==
    IF w.grid[cy][cx] = CELL_WALL \/ AgentAt(w, cx, cy) THEN w
    ELSE [w EXCEPT
            !.agents = Append(@, [x |-> cx, y |-> cy, targetX |-> NULL, targetY |-> NULL,
                                  path |-> <<>>, isRetreating |-> FALSE,
                                  visibilityRange |->
                                      IF w.currentDecisionMode = DECISION_DISTRIBUTED
                                      THEN 3 ELSE Infinity]),
            !.grid[cy][cx] = CELL_AGENT]

\* toggleTarget(x, y)
toggleTarget(w, cx, cy) ==
    IF w.grid[cy][cx] = CELL_WALL THEN w
    ELSE IF TargetAt(w, cx, cy)
    THEN LET targetIndex == CHOOSE i \in 1..Len(w.targetPositions) :
                                w.targetPositions[i] = Pos(cx, cy)
         IN [w EXCEPT !.targetPositions = RemoveAt(@, targetIndex)]
    ELSE [w EXCEPT !.targetPositions = Append(@, Pos(cx, cy))]

\* toggleWall without its tests for an agent and for a target.
toggleWallUnchecked(w, cx, cy) ==
    IF w.grid[cy][cx] = CELL_WALL THEN [w EXCEPT !.grid[cy][cx] = CELL_EMPTY]
    ELSE [w EXCEPT !.grid[cy][cx] = CELL_WALL]

\* toggleWall(x, y)
toggleWall(w, cx, cy) ==
    IF AgentAt(w, cx, cy) \/ TargetAt(w, cx, cy) THEN w
    ELSE IF w.grid[cy][cx] = CELL_WALL THEN [w EXCEPT !.grid[cy][cx] = CELL_EMPTY]
    ELSE [w EXCEPT !.grid[cy][cx] = CELL_WALL]

\* clearWalls(): grid is a new array that holds the agents only.
clearWalls(w) ==
    RebindGrid(w, [cy \in DOMAIN w.grid |-> [cx \in DOMAIN w.grid[cy] |->
                      IF AgentAt(w, cx, cy) THEN CELL_AGENT ELSE CELL_EMPTY]])

\* changeDecisionMode(): every agent has a visibilityRange from its creation,
\* so none is given the default.
changeDecisionMode(w, mode) == [w EXCEPT !.currentDecisionMode = mode]

\* The clicks that place a scene on the page: its walls, its agents in their
\* order, its targets in their order.
RECURSIVE PlaceWalls(_, _)
PlaceWalls(w, cells) ==
    IF cells = {} THEN w
    ELSE LET c == CHOOSE c \in cells : TRUE
         IN PlaceWalls(toggleWall(w, c.x, c.y), cells \ {c})

RECURSIVE PlaceAgents(_, _)
PlaceAgents(w, cells) ==
    IF cells = <<>> THEN w
    ELSE PlaceAgents(addAgent(w, Head(cells).x, Head(cells).y), Tail(cells))

RECURSIVE PlaceTargets(_, _)
PlaceTargets(w, cells) ==
    IF cells = <<>> THEN w
    ELSE PlaceTargets(toggleTarget(w, Head(cells).x, Head(cells).y), Tail(cells))

PlaceScene(w, scene) ==
    PlaceTargets(PlaceAgents(PlaceWalls(w, scene.walls), scene.agents), scene.targets)

\* The callback of a visibility timeout: each agent it holds gets back the
\* range stored for it.
restoreVisibility(w, p) ==
    [w EXCEPT !.agents = [k \in 1..Len(w.agents) |->
        IF k \in Range(p.objs) /\ k \in DOMAIN p.orig
        THEN [w.agents[k] EXCEPT !.visibilityRange = p.orig[k]]
        ELSE w.agents[k]]]

\* ----------------------------------------------------------------- actions
\* The scenes the user builds after initializeGrid, the cells on which the
\* user toggles a wall later, and the counters at which a run is cut.
SceneAgents == {<<Pos(1, 1)>>, <<Pos(1, 1), Pos(1, 2)>>}
SceneTargets == {<<Pos(0, 0)>>, <<Pos(1, 2), Pos(0, 0)>>}
Scenes == {[walls |-> {}, agents |-> a, targets |-> t] : a \in SceneAgents, t \in SceneTargets}
WallCells == {Pos(1, 0), Pos(0, 1)}
MaxDeadlockCount == 3
MaxPendingRestores == 1

\* An operation of the page other than a step or a start.
Setup(w) == Commit(Idle(w), "other")

\* The initialize button, at any time, followed by the clicks of a scene.
InitializeGrid == \E scene \in Scenes : Setup(PlaceScene(initializeGrid(World), scene))

\* handleCellClick in the mode of walls: nothing while the run is on.
ClickWall ==
    /\ ~isSimulationRunning
    /\ \E c \in WallCells : Setup(toggleWall(World, c.x, c.y))

\* The button that clears the walls is disabled while the run is on.
ClearWalls == ~isSimulationRunning /\ Setup(clearWalls(World))

\* The reset button works at any time.
ResetSimulation == Setup(resetSimulation(World))

\* toggleSimulation(): the start button starts or pauses.
Start ==
    /\ ~isSimulationRunning
    /\ Commit(Idle(startSimulation(World)), "start")

Pause ==
    /\ isSimulationRunning
    /\ Setup(pauseSimulation(World))

\* The selects of the modes work at any time.
Algorithms == {"astar", "bfs", "minimax"}
Topologies == {TOPOLOGY_VON_NEUMANN, TOPOLOGY_MOORE}
DecisionModes == {DECISION_CENTRALIZED, DECISION_DISTRIBUTED}

ChangeAlgorithm ==
    \E a \in Algorithms :
        /\ a # currentAlgorithm
        /\ Setup([World EXCEPT !.currentAlgorithm = a])

ChangeTopology ==
    \E tp \in Topologies :
        /\ tp # currentTopology
        /\ Setup([World EXCEPT !.currentTopology = tp])

ChangeMovementMode ==
    Setup([World EXCEPT !.sequentialMovementMode = ~sequentialMovementMode])

ChangeDecisionMode ==
    \E mode \in DecisionModes :
        /\ mode # currentDecisionMode
        /\ Setup(changeDecisionMode(World, mode))

\* The interval fires: one simulationStep.  The draws of the step are taken
\* from the sets on which the step can depend.
Tick ==
    /\ isSimulationRunning
    /\ deadlockCount < MaxDeadlockCount
    /\ Len(pendingRestores) <= MaxPendingRestores
    /\ LET draws == currentDecisionMode = DECISION_DISTRIBUTED /\ sequentialMovementMode
       IN \E recalc \in (IF draws THEN SUBSET Range(agentsNotAtTargetOf(World)) ELSE {{}}),
             coin \in (IF draws THEN BOOLEAN ELSE {FALSE}) :
            LET first == simulationStep(World, [recalc |-> recalc, coin |-> coin, pick |-> 1])
            IN \E pick \in 1..Max2(1, first.randomChoices) :
                Commit(IF pick = 1 THEN first
                       ELSE simulationStep(World, [recalc |-> recalc, coin |-> coin,
                                                    pick |-> pick]),
                       "step")

\* A timeout of a visibility boost fires: the ranges go back to what they were.
RestoreVisibility ==
    \E i \in 1..Len(pendingRestores) :
        Setup([restoreVisibility(World, pendingRestores[i])
                  EXCEPT !.pendingRestores = RemoveAt(pendingRestores, i)])

\* A timeout of a restart fires: startSimulation, after the switch to the
\* sequential mode for the restart of the fifth failed attempt.
Restart ==
    \E kind \in pendingRestarts :
        Commit(Idle(startSimulation(
                   [World EXCEPT !.pendingRestarts = @ \ {kind},
                                 !.sequentialMovementMode =
                                     IF kind = "sequential" THEN TRUE ELSE @])),
               "start")

\* The page after its load: initializeGrid has run once on the empty globals.
Loaded ==
    NewHandler([grid |-> createEmptyGrid(GridSize), agents |-> <<>>,
                targetPositions |-> <<>>,
                isSimulationRunning |-> FALSE, sequentialMovementMode |-> FALSE,
                currentDecisionMode |-> DECISION_CENTRALIZED,
                currentAlgorithm |-> "astar",
                currentTopology |-> TOPOLOGY_VON_NEUMANN,
                failedDeadlockResolutionAttempts |-> 0,
                lastDeadlockSignature |-> <<>>, repeatedDeadlockCount |-> 0,
                deadlockCount |-> 0, waitingTime |-> <<>>,
                previousPositions |-> <<>>,
                handlerGridAliased |-> TRUE, handlerGrid |-> <<>>,
                handlerAgentsAliased |-> TRUE, handlerAgents |-> <<>>,
                deadlocksResolvedDisplay |-> 0,
                pendingRestores |-> <<>>, pendingRestarts |-> {},
                moves |-> <<>>, tactic |-> "", outcome |-> ""])

\* The variables hold the record w, after operation op.
Holds(w, op) ==
    /\ grid = w.grid
    /\ agents = w.agents
    /\ targetPositions = w.targetPositions
    /\ isSimulationRunning = w.isSimulationRunning
    /\ sequentialMovementMode = w.sequentialMovementMode
    /\ currentDecisionMode = w.currentDecisionMode
    /\ currentAlgorithm = w.currentAlgorithm
    /\ currentTopology = w.currentTopology
    /\ failedDeadlockResolutionAttempts = w.failedDeadlockResolutionAttempts
    /\ lastDeadlockSignature = w.lastDeadlockSignature
    /\ repeatedDeadlockCount = w.repeatedDeadlockCount
    /\ deadlockCount = w.deadlockCount
    /\ waitingTime = w.waitingTime
    /\ previousPositions = w.previousPositions
    /\ handlerGridAliased = w.handlerGridAliased
    /\ handlerGrid = w.handlerGrid
    /\ handlerAgentsAliased = w.handlerAgentsAliased
    /\ handlerAgents = w.handlerAgents
    /\ deadlocksResolvedDisplay = w.deadlocksResolvedDisplay
    /\ pendingRestores = w.pendingRestores
    /\ pendingRestarts = w.pendingRestarts
    /\ moves = w.moves
    /\ tactic = w.tactic
    /\ outcome = w.outcome
    /\ lastOp = op

\* The specification of the page follows MaxOps operations from its load.
MaxOps == 8
Spend == opsLeft > 0 /\ opsLeft' = opsLeft - 1

Init == Holds(Loaded, "other") /\ opsLeft = MaxOps

Next ==
    \/ Spend /\ InitializeGrid
    \/ Spend /\ ClickWall
    \/ Spend /\ ClearWalls
    \/ Spend /\ ResetSimulation
    \/ Spend /\ Start
    \/ Spend /\ Pause
    \/ Spend /\ ChangeAlgorithm
    \/ Spend /\ ChangeTopology
    \/ Spend /\ ChangeMovementMode
    \/ Spend /\ ChangeDecisionMode
    \/ Spend /\ Tick
    \/ Spend /\ RestoreVisibility
    \/ Spend /\ Restart

Spec == Init /\ [][Next]_vars


\* -------------------------------------------------------------------- runs
\* The runs of the scenes below, in every combination of the modes, from the
\* start to their end, with no operation of the user in between.  The modes
\* are selected on the loaded page, then the scene is placed, then the run is
\* started.
RunScenes ==
    { [walls |-> {}, agents |-> <<Pos(1, 1)>>, targets |-> <<Pos(0, 0)>>],
      [walls |-> {}, agents |-> <<Pos(1, 1), Pos(1, 2)>>,
       targets |-> <<Pos(1, 2), Pos(0, 0)>>],
      [walls |-> {}, agents |-> <<Pos(0, 0), Pos(1, 0)>>,
       targets |-> <<Pos(2, 2), Pos(1, 2)>>],
      [walls |-> {Pos(1, 0), Pos(1, 1), Pos(1, 2)}, agents |-> <<Pos(0, 0)>>,
       targets |-> <<Pos(2, 0)>>],
      [walls |-> {Pos(1, 0), Pos(1, 1), Pos(1, 2)}, agents |-> <<Pos(0, 0), Pos(0, 1)>>,
       targets |-> <<Pos(2, 2), Pos(2, 1)>>] }

StartedRun(scene, algorithm, topology, sequential, decision) ==
    startSimulation(PlaceScene([Loaded EXCEPT !.currentAlgorithm = algorithm,
                                              !.currentTopology = topology,
                                              !.sequentialMovementMode = sequential,
                                              !.currentDecisionMode = decision],
                               scene))

RunInit ==
    /\ \E scene \in RunScenes, algorithm \in Algorithms, topology \in Topologies,
          sequential \in BOOLEAN, decision \in DecisionModes :
           Holds(StartedRun(scene, algorithm, topology, sequential, decision), "start")
    /\ opsLeft = 0

RunNext ==
    \/ Tick /\ UNCHANGED opsLeft
    \/ RestoreVisibility /\ UNCHANGED opsLeft
    \/ Restart /\ UNCHANGED opsLeft

\* The interval and the timeouts of the page fire as long as they are set.
RunSpec ==
    /\ RunInit
    /\ [][RunNext]_vars
    /\ WF_vars(Tick /\ UNCHANGED opsLeft)
    /\ WF_vars(RestoreVisibility /\ UNCHANGED opsLeft)
    /\ WF_vars(Restart /\ UNCHANGED opsLeft)


\* ------------------------------------------------------------------ claims
Stepped == lastOp = "step"
MovedAgents == {moves[i].agent : i \in 1..Len(moves)}

\* C1: after every step no two agents have the same position.
C1_NoOverlap ==
    Stepped => \A j, k \in 1..Len(agents) :
                   j # k => AgentPos(World, j) # AgentPos(World, k)

\* C2: no step leaves an agent on a cell that is a wall of the grid the step
\* started with.
C2_NoAgentOnWall ==
    [][lastOp' = "step" =>
          \A k \in 1..Len(agents') : grid[agents'[k].y][agents'[k].x] # CELL_WALL]_vars

\* C3: after every step the path of an agent, if it has one, starts at the
\* agent's position.
C3_PathPrefix ==
    Stepped => \A k \in 1..Len(agents) :
                   Len(agents[k].path) > 0 => agents[k].path[1] = AgentPos(World, k)

\* C4: a start with at least one goal but fewer goals than agents does not
\* enter the running state.
C4_StartRejected ==
    (lastOp = "start" /\ Len(agents) >= 1 /\ Len(targetPositions) >= 1
        /\ Len(targetPositions) < Len(agents)) => ~isSimulationRunning

\* C7: a step in the sequential mode changes the position of one agent at most.
C7_OneAgentPerStep ==
    (Stepped /\ sequentialMovementMode) => Cardinality(MovedAgents) <= 1

\* C8: in a step an agent changes its position once at most, and to a
\* neighbour of its cell under the current topology.
C8_AdjacentOnce ==
    Stepped =>
        /\ \A i, j \in 1..Len(moves) : i # j => moves[i].agent # moves[j].agent
        /\ \A i \in 1..Len(moves) :
              moves[i].to \in Range(getNeighbors(moves[i].from.x, moves[i].from.y,
                                                 currentTopology, GridSize))

\* C9: after a step an agent at its goal, if the step did not change the goal,
\* has the path that holds its position only.
C9_RestingPath ==
    [][lastOp' = "step" =>
          \A k \in 1..Len(agents') :
              (/\ AtTarget(agents'[k])
               /\ agents'[k].targetX = agents[k].targetX
               /\ agents'[k].targetY = agents[k].targetY)
                  => agents'[k].path = <<Pos(agents'[k].x, agents'[k].y)>>]_vars

\* C10: the count of deadlocks that getDeadlockCount returns never decreases.
C10_CountMonotonic == [][deadlockCount' >= deadlockCount]_vars

\* ------------------------------------------------------------- the assignment
\* The assignment engine on the placements of the cells below: one or two
\* agents, one or two targets, on the open grid and behind a wall; the start
\* button applies it (startSimulation, assignTargets, findOptimalAssignment).
AssignCells == {Pos(0, 0), Pos(2, 0), Pos(1, 0), Pos(0, 1), Pos(2, 2)}
AssignWalls == {{}, {Pos(1, 1)}}

\* The sequences of one or two distinct cells of a set.
OneOrTwo(cells) ==
    {<<c>> : c \in cells}
        \cup {<<p[1], p[2]>> : p \in {q \in cells \X cells : q[1] # q[2]}}

AssignScenes ==
    {[walls |-> ws, agents |-> a, targets |-> t] :
        ws \in AssignWalls, a \in OneOrTwo(AssignCells), t \in OneOrTwo(AssignCells)}

AssignInit ==
    /\ \E scene \in AssignScenes : Holds(PlaceScene(Loaded, scene), "other")
    /\ opsLeft = 0

AssignNext == Start /\ UNCHANGED opsLeft

AssignSpec == AssignInit /\ [][AssignNext]_vars

\* The cost matrix and the assignment of the placement of the state.
PlacedPositions == [k \in 1..Len(agents) |-> Pos(agents[k].x, agents[k].y)]
PlacedCosts == createCostMatrix(PlacedPositions, targetPositions, grid)
PlacedAssignment == findOptimalAssignment(PlacedPositions, targetPositions, grid)

\* C11: the assignment holds each agent index once at most and each goal
\* index once at most.
C11_AssignmentFeasible ==
    \A i, j \in 1..Len(PlacedAssignment) :
        i # j => /\ PlacedAssignment[i].agent # PlacedAssignment[j].agent
                 /\ PlacedAssignment[i].target # PlacedAssignment[j].target

\* The start applied an assignment that gave two agents their targets.
C11_Witness ==
    /\ lastOp = "start" /\ isSimulationRunning
    /\ Len(agents) = 2 /\ Len(PlacedAssignment) = 2
    /\ TargetOf(agents[1]) # TargetOf(agents[2])

\* The sum of the costs of an assignment.
RECURSIVE TotalCost(_, _)
TotalCost(costs, assignment) ==
    IF assignment = <<>> THEN 0
    ELSE costs[Head(assignment).agent][Head(assignment).target]
         + TotalCost(costs, Tail(assignment))

\* The one-to-one assignments of h agents to w targets, h <= w: the
\* injections, as sequences of [agent, target].
OneToOne(h, w) ==
    {[k \in 1..h |-> [agent |-> k, target |-> f[k]]] :
        f \in {g \in [1..h -> 1..w] : \A i, j \in 1..h : i # j => g[i] # g[j]}}

\* C12: with at least as many goals as agents, no one-to-one assignment costs
\* less than the one returned.
C12_AssignmentOptimal ==
    Len(targetPositions) >= Len(agents) =>
        \A other \in OneToOne(Len(agents), Len(targetPositions)) :
            TotalCost(PlacedCosts, PlacedAssignment) <= TotalCost(PlacedCosts, other)

\* --------------------------------------------------------------- the planners
\* A planner on the snapshots of one agent (the start) and one target (the
\* goal) among the walls of a subset of PlannerWallCells, under each algorithm
\* and each topology; the start button applies it (startSimulation,
\* assignTargets, calculatePath, createPathfinder).
PlannerStarts == {Pos(0, 0), Pos(1, 1)}
PlannerGoals == {Pos(0, 0), Pos(2, 2), Pos(0, 2), Pos(2, 0), Pos(1, 1)}
PlannerWallCells == {Pos(1, 0), Pos(0, 1), Pos(1, 2), Pos(2, 1)}

PlannerScenes ==
    {[walls |-> ws, agents |-> <<s>>, targets |-> <<g>>] :
        ws \in SUBSET PlannerWallCells, s \in PlannerStarts, g \in PlannerGoals}

PlannerInit ==
    /\ \E scene \in PlannerScenes, a \in Algorithms, tp \in Topologies :
           Holds(PlaceScene([Loaded EXCEPT !.currentAlgorithm = a,
                                           !.currentTopology = tp], scene), "other")
    /\ opsLeft = 0

PlannerNext == Start /\ UNCHANGED opsLeft

PlannerSpec == PlannerInit /\ [][PlannerNext]_vars

\* The start, the goal and the planner's answer on the snapshot of the state.
PlannerStart == Pos(agents[1].x, agents[1].y)
PlannerGoal == targetPositions[1]
PlannerPath == FindPath(World, grid, PlannerStart, PlannerGoal)

\* The cells that a walk over cells that are no walls reaches from seen, each
\* step to a neighbour of the topology.
RECURSIVE ReachFrom(_, _, _)
ReachFrom(gridData, topologyType, seen) ==
    LET more == {n \in AllCells(gridData) :
                    /\ gridData[n.y][n.x] # CELL_WALL
                    /\ \E c \in seen :
                           n \in Range(getNeighbors(c.x, c.y, topologyType,
                                                    GridRows(gridData)))}
    IN IF more \subseteq seen THEN seen
       ELSE ReachFrom(gridData, topologyType, seen \cup more)

Reachable(gridData, topologyType, start, goal) ==
    goal \in ReachFrom(gridData, topologyType, {start})

\* The cost of a step: one for every step when unit, otherwise COST_DIAGONAL
\* for a diagonal step and COST_ORTHOGONAL for an orthogonal one.
StepCost(unit, a, b) ==
    IF unit THEN 1
    ELSE IF Abs(a.x - b.x) + Abs(a.y - b.y) = 2 THEN COST_DIAGONAL ELSE COST_ORTHOGONAL

RECURSIVE PathCost(_, _)
PathCost(unit, path) ==
    IF Len(path) <= 1 THEN 0
    ELSE StepCost(unit, path[1], path[2]) + PathCost(unit, Tail(path))

\* The least costs of the walks of n more steps from the cells of known, a set
\* of [pos, cost] with one cost for a cell: a round extends every walk by a
\* step to a neighbour of the topology that is no wall and keeps the least
\* cost of each cell.
RECURSIVE Relax(_, _, _, _, _)
Relax(gridData, topologyType, unit, known, n) ==
    IF n = 0 THEN known
    ELSE LET longer == known \cup UNION {
                 {[pos |-> q, cost |-> k.cost + StepCost(unit, k.pos, q)] :
                     q \in {c \in Range(getNeighbors(k.pos.x, k.pos.y, topologyType,
                                                     GridRows(gridData))) :
                              gridData[c.y][c.x] # CELL_WALL}} : k \in known}
         IN Relax(gridData, topologyType, unit,
                  {k \in longer : \A o \in longer : o.pos = k.pos => k.cost <= o.cost},
                  n - 1)

\* The least cost of a walk from start to goal, a cell that a walk reaches.
LeastCost(gridData, topologyType, unit, start, goal) ==
    LET best == Relax(gridData, topologyType, unit, {[pos |-> start, cost |-> 0]},
                      Cardinality(AllCells(gridData)))
    IN (CHOOSE k \in best : k.pos = goal).cost

\* C13: the planner's answer begins at the start and ends at the goal when the
\* goal is reachable, and is empty when it is not.
C13_PathFromStartToGoal ==
    IF Reachable(grid, currentTopology, PlannerStart, PlannerGoal)
    THEN /\ PlannerPath # <<>>
         /\ PlannerPath[1] = PlannerStart
         /\ PlannerPath[Len(PlannerPath)] = PlannerGoal
    ELSE PlannerPath = <<>>

\* C14: an answer of one element means that the start is the goal.
C14_SingletonMeansArrived ==
    Len(PlannerPath) = 1 => PlannerStart = PlannerGoal

\* C15: the path of A* to a reachable goal costs the least of all walks from
\* the start to the goal over the neighbours of the topology.
C15_AStarLeastCost ==
    (currentAlgorithm = "astar"
        /\ Reachable(grid, currentTopology, PlannerStart, PlannerGoal)) =>
        PathCost(FALSE, PlannerPath)
            = LeastCost(grid, currentTopology, FALSE, PlannerStart, PlannerGoal)

\* The start gave the agent the path of A* around a wall, under Moore, with a
\* diagonal step in it.
C15_Witness ==
    /\ lastOp = "start" /\ currentAlgorithm = "astar"
    /\ currentTopology = TOPOLOGY_MOORE
    /\ agents[1].path = PlannerPath
    /\ Len(PlannerPath) >= 3
    /\ PathCost(FALSE, PlannerPath) > COST_ORTHOGONAL * (Len(PlannerPath) - 1)
    /\ \E c \in PlannerWallCells : grid[c.y][c.x] = CELL_WALL

\* C16: the path of BFS to a reachable goal has the fewest steps of all walks
\* from the start to the goal over the neighbours of the topology.
C16_BFSFewestSteps ==
    (currentAlgorithm = "bfs"
        /\ Reachable(grid, currentTopology, PlannerStart, PlannerGoal)) =>
        PathCost(TRUE, PlannerPath)
            = LeastCost(grid, currentTopology, TRUE, PlannerStart, PlannerGoal)

\* ------------------------------------------------------------------ the setup
MODE_WALL == "wall"
MODE_AGENT == "agent"
MODE_TARGET == "target"

\* SHAPES.diamond
SHAPE_DIAMOND ==
    << <<0, 0, 1, 0, 0>>,
       <<0, 1, 1, 1, 0>>,
       <<1, 1, 1, 1, 1>>,
       <<0, 1, 1, 1, 0>>,
       <<0, 0, 1, 0, 0>> >>

\* toggleAgent(x, y): the agent of the cell is taken out of the array (the
\* ids are the indices, so they follow), or one is added.
toggleAgent(w, cx, cy) ==
    IF w.grid[cy][cx] = CELL_WALL THEN w
    ELSE IF AgentAt(w, cx, cy)
    THEN LET agentIndex == MinOfSet({k \in 1..Len(w.agents) :
                                        w.agents[k].x = cx /\ w.agents[k].y = cy})
         IN [w EXCEPT !.agents = RemoveAt(@, agentIndex),
                      !.grid[cy][cx] = CELL_EMPTY]
    ELSE addAgent(w, cx, cy)

\* handleCellClick(x, y) in the interaction mode of the select.
handleCellClick(w, mode, cx, cy) ==
    IF w.isSimulationRunning THEN w
    ELSE IF mode = MODE_WALL THEN toggleWall(w, cx, cy)
    ELSE IF mode = MODE_AGENT THEN toggleAgent(w, cx, cy)
    ELSE toggleTarget(w, cx, cy)

\* clearAgents(): the cells of the agents are emptied and agents is a new,
\* empty array.
clearAgents(w) ==
    IF w.isSimulationRunning THEN w
    ELSE RebindAgents([w EXCEPT !.grid =
             [cy \in DOMAIN w.grid |-> [cx \in DOMAIN w.grid[cy] |->
                 IF AgentAt(w, cx, cy) THEN CELL_EMPTY ELSE w.grid[cy][cx]]]])

\* clearTargets()
clearTargets(w) ==
    IF w.isSimulationRunning THEN w ELSE [w EXCEPT !.targetPositions = <<>>]

\* setTargetShape(shapeName) for the rows of SHAPES[shapeName]: the targets
\* are the cells of the shape, centred, row by row, without those out of
\* bounds, on a wall or under an agent.
setTargetShape(w, shape) ==
    IF w.isSimulationRunning THEN w
    ELSE LET shapeHeight == Len(shape)
             shapeWidth == Len(shape[1])
             startX == (GridSize - shapeWidth) \div 2
             startY == (GridSize - shapeHeight) \div 2
             cells == [i \in 1..(shapeHeight * shapeWidth) |->
                          [sx |-> (i - 1) % shapeWidth, sy |-> (i - 1) \div shapeWidth]]
             Kept(c) ==
                 /\ shape[c.sy + 1][c.sx + 1] = 1
                 /\ InBounds(startX + c.sx, startY + c.sy, GridSize)
                 /\ w.grid[startY + c.sy][startX + c.sx] # CELL_WALL
                 /\ ~AgentAt(w, startX + c.sx, startY + c.sy)
             kept == SelectSeq(cells, Kept)
         IN [w EXCEPT !.targetPositions =
                [i \in 1..Len(kept) |-> Pos(startX + kept[i].sx, startY + kept[i].sy)]]

\* initializeGrid(), with automatic generation: agents along the bottom row,
\* then the diamond of targets.
initializeGridAuto(w) ==
    LET initialAgentCount == Min2(5, GridSize \div 2)
        startY == GridSize - 1
        spacing == GridSize \div initialAgentCount
        xs == SelectSeq([i \in 1..initialAgentCount |-> (i - 1) * spacing],
                        LAMBDA px : px < GridSize)
        fresh == [resetSimulation(w) EXCEPT !.grid = createEmptyGrid(GridSize)]
        withAgents == PlaceAgents(fresh, [i \in 1..Len(xs) |-> Pos(xs[i], startY)])
    IN NewHandler(setTargetShape(withAgents, SHAPE_DIAMOND))

\* The cells on which the user clicks during the setup.
EditCells == {Pos(0, 0), Pos(1, 0)}
Modes == {MODE_WALL, MODE_AGENT, MODE_TARGET}

\* A click that asks for a wall on an agent or on a target, or for an agent
\* or a target on a wall.
Offending(mode, cx, cy) ==
    \/ mode = MODE_WALL /\ (AgentAt(World, cx, cy) \/ TargetAt(World, cx, cy))
    \/ mode # MODE_WALL /\ grid[cy][cx] = CELL_WALL

\* A click on a cell, in one of the three interaction modes; the user places
\* MaxAgents agents and MaxTargets targets at most.
ClickCell ==
    /\ ~isSimulationRunning
    /\ \E mode \in Modes, c \in EditCells :
           /\ (mode = MODE_AGENT /\ ~AgentAt(World, c.x, c.y)) => Len(agents) < MaxAgents
           /\ (mode = MODE_TARGET /\ ~TargetAt(World, c.x, c.y))
                  => Len(targetPositions) < MaxTargets
           /\ Commit(Idle(handleCellClick(World, mode, c.x, c.y)),
                     IF Offending(mode, c.x, c.y) THEN "offending" ELSE "click")

ClearAgents == ~isSimulationRunning /\ Setup(clearAgents(World))

ClearTargets == ~isSimulationRunning /\ Setup(clearTargets(World))

\* The initialize button without a scene, in each generation mode.
InitializeManual == Setup(initializeGrid(World))

InitializeAuto == Setup(initializeGridAuto(World))

EditInit == Holds(Loaded, "other") /\ opsLeft = 0

EditNext ==
    \/ ClickCell /\ UNCHANGED opsLeft
    \/ ClearAgents /\ UNCHANGED opsLeft
    \/ ClearTargets /\ UNCHANGED opsLeft
    \/ ClearWalls /\ UNCHANGED opsLeft
    \/ ResetSimulation /\ UNCHANGED opsLeft
    \/ InitializeManual /\ UNCHANGED opsLeft
    \/ InitializeAuto /\ UNCHANGED opsLeft
    \/ ChangeDecisionMode /\ UNCHANGED opsLeft

EditSpec == EditInit /\ [][EditNext]_vars

\* No agent and no target on a wall, no two agents on a cell, no two targets
\* on a cell.
ValidConfiguration ==
    /\ \A k \in 1..Len(agents) : grid[agents[k].y][agents[k].x] # CELL_WALL
    /\ \A i \in 1..Len(targetPositions) :
           grid[targetPositions[i].y][targetPositions[i].x] # CELL_WALL
    /\ \A j, k \in 1..Len(agents) :
           j # k => Pos(agents[j].x, agents[j].y) # Pos(agents[k].x, agents[k].y)
    /\ \A i, j \in 1..Len(targetPositions) :
           i # j => targetPositions[i] # targetPositions[j]

\* C18: every setup operation leaves a valid configuration, and an offending
\* click leaves the grid, the agents and the targets as they were.
C18_SetupKeepsValid ==
    /\ ValidConfiguration
    /\ [][/\ ValidConfiguration'
          /\ lastOp' = "offending" => UNCHANGED <<grid, agents, targetPositions>>]_vars

\* An offending click was made on a configuration with a wall, an agent and a
\* target.
C18_Witness ==
    /\ lastOp = "offending"
    /\ Len(agents) >= 1 /\ Len(targetPositions) >= 1
    /\ \E c \in EditCells : grid[c.y][c.x] = CELL_WALL

\* C17: a cell of the grid is marked CELL_AGENT exactly when one agent, and
\* one only, stands on it.
C17_GridMatchesAgents ==
    \A cy \in DOMAIN grid : \A cx \in DOMAIN grid[cy] :
        grid[cy][cx] = CELL_AGENT
            <=> Cardinality({k \in 1..Len(agents) :
                                agents[k].x = cx /\ agents[k].y = cy}) = 1

\* C19: in the distributed mode every agent has a finite visibilityRange.
C19_FiniteVisibility ==
    currentDecisionMode = DECISION_DISTRIBUTED =>
        \A k \in 1..Len(agents) : agents[k].visibilityRange < Infinity

\* C22: the count of failed ticks that leads to the restart in forced
\* sequential mode counts consecutive ticks without a move: a step in which
\* some agent moved leaves failedDeadlockResolutionAttempts at 0, and the
\* restart is scheduled only by a step that found the count at
\* FAILED_ATTEMPTS_LIMIT - 1 and moved no agent.
C22_MovingTickResetsCount ==
    [][lastOp' = "step" =>
          /\ moves' # <<>> => failedDeadlockResolutionAttempts' = 0
          /\ ("sequential" \in pendingRestarts' /\ "sequential" \notin pendingRestarts)
                 => /\ moves' = <<>>
                    /\ failedDeadlockResolutionAttempts = FAILED_ATTEMPTS_LIMIT - 1]_vars

\* C23: a step stops the run as stuck only after every tactic of the
\* escalation was tried: it went through the branch of the agents without a
\* path, the one that tries forced displacement, swapping, two-phase planning
\* and random moves, so some agent away from its target is left without a
\* path; and a step stops the run in no other way than success, the scheduled
\* restart, or stuck.
C23_StuckAfterEveryTactic ==
    /\ (Stepped /\ outcome = "stuck") => stuckAgentsOf(World) # <<>>
    /\ (Stepped /\ ~isSimulationRunning) => outcome \in {"success", "restart", "stuck"}

\* C24: no two agents that have a target have the same target, after the
\* assignment of the start and after every step, the reassignment tactics
\* included.
C24_DistinctTargets ==
    \A j, k \in 1..Len(agents) :
        (j # k /\ agents[j].targetX # NULL /\ agents[k].targetX # NULL)
            => Pos(agents[j].targetX, agents[j].targetY)
                   # Pos(agents[k].targetX, agents[k].targetY)

\* The deadlocked agents a step starting in w hands to resolveDeadlocks.
DeadlockedAt(w) ==
    LET detected == detectDeadlocks(w)
        True(id) == TrueDeadlock(w, id) = "yes"
    IN IF w.sequentialMovementMode /\ Len(detected) > 0
       THEN SelectSeq(detected, True) ELSE detected

\* Some agent of ids is given a plan by the loop of resolveDeadlocks: by
\* findAlternativePath, by temporaryRetreat, or by a path over the grid that
\* keeps only the walls.
RECURSIVE ResolvedSome(_, _)
ResolvedSome(w, ids) ==
    IF ids = <<>> THEN FALSE
    ELSE LET k == Head(ids) + 1
         IN IF k > Len(HandlerAgentsOf(w)) THEN ResolvedSome(w, Tail(ids))
            ELSE LET alt == findAlternativePath(w, k)
                     retreat == temporaryRetreat(w, k)
                     cleared == createClearedPathForAgent(w, k)
                 IN \/ alt.result
                    \/ retreat.result
                    \/ Len(HandlerAgentsOf(cleared)[k].path) > 1
                    \/ ResolvedSome(cleared, Tail(ids))

\* C25: a step raises deadlockCount by 1 or leaves it, and raises it only if
\* at least one deadlocked agent was given a new plan.
C25_CountsResolvedDeadlocks ==
    [][lastOp' = "step" =>
          /\ deadlockCount' \in {deadlockCount, deadlockCount + 1}
          /\ deadlockCount' = deadlockCount + 1
                 => LET w == updatePositionTracking(World)
                    IN ResolvedSome(w, StableSort(DeadlockedAt(w), IdLess))]_vars

\* The cell of agent j when move i of the step is made: where its last
\* earlier move of the step took it, or where the step found it.
PositionBeforeMove(i, j) ==
    LET earlier == {m \in 1..(i - 1) : moves'[m].agent = j}
    IN IF earlier = {} THEN Pos(agents[j].x, agents[j].y)
       ELSE moves'[CHOOSE m \in earlier : \A n \in earlier : n <= m].to

\* C26: in the parallel mode every move of the move loop goes to a cell that
\* holds no other agent in the positions as updated by the earlier moves of
\* the same step (so a cell left earlier in the step can be entered and a
\* cell left only later cannot), and the moves are made in the order of the
\* prioritized agents.
C26_MoveIntoFreeCell ==
    [][(lastOp' = "step" /\ ~sequentialMovementMode /\ tactic' = "") =>
          /\ \A i \in 1..Len(moves') : \A j \in 1..Len(agents) :
                 j # moves'[i].agent => PositionBeforeMove(i, j) # moves'[i].to
          /\ \A i \in 1..Len(moves') :
                 moves'[i].from = PositionBeforeMove(i, moves'[i].agent)]_vars

\* C27: in the distributed mode a plan is made on a grid whose cells beyond
\* the agent's visibilityRange are masked, its target excepted: when a step
\* gives a new path to an agent it does not move, every cell of that path is
\* the agent's target or lies within its visibilityRange.
C27_PlanWithinVisibility ==
    [][(lastOp' = "step" /\ currentDecisionMode = DECISION_DISTRIBUTED) =>
          \A k \in 1..Len(agents') :
              (/\ agents'[k].path # agents[k].path
               /\ \A i \in 1..Len(moves') : moves'[i].agent # k)
                  => \A i \in 1..Len(agents'[k].path) :
                         LET c == agents'[k].path[i]
                         IN \/ c = TargetOf(agents'[k])
                            \/ Manhattan(c.x, c.y, agents'[k].x, agents'[k].y)
                                   <= agents'[k].visibilityRange]_vars

\* The tactics of the escalation, as the step records the one that succeeded.
LadderTactics == {"reassign", "moveBlocking", "forced", "swap", "cleared", "random"}

\* C28: a step that counted a failed tick and did not schedule the restart
\* went through the tactics in their order: it ends with the tactic that
\* succeeded, or as stuck when none did.
C28_LadderRuns ==
    [][(/\ lastOp' = "step"
        /\ failedDeadlockResolutionAttempts'
               = failedDeadlockResolutionAttempts + 1
        /\ outcome' # "restart")
           => tactic' \in LadderTactics \/ outcome' = "stuck"]_vars

\* C29: once no restoration of a widened visibility is pending, every agent
\* has the visibilityRange it was created with: 3 in the distributed mode,
\* Infinity otherwise.
C29_VisibilityRestored ==
    pendingRestores = <<>> =>
        \A k \in 1..Len(agents) : agents[k].visibilityRange \in {3, Infinity}

\* C40: after every sequence of initialise, reset, clear-agents and
\* clear-walls operations the grid and the agents the deadlock handler reads
\* are the grid and the agents of the page, which the scheduler uses.
C40_HandlerReadsPageState ==
    /\ HandlerGridOf(World) = grid
    /\ HandlerAgentsOf(World) = agents

\* ------------------------------------------------------- the run controls
\* The buttons and selects that stay enabled during a run, on the scenes of
\* the runs: start and pause, the four selects of the modes, reset.
ControlInit ==
    /\ \E scene \in RunScenes : Holds(PlaceScene(Loaded, scene), "other")
    /\ opsLeft = 0

ControlNext ==
    \/ Start /\ UNCHANGED opsLeft
    \/ Pause /\ UNCHANGED opsLeft
    \/ ChangeMovementMode /\ UNCHANGED opsLeft
    \/ ChangeDecisionMode /\ UNCHANGED opsLeft
    \/ ChangeAlgorithm /\ UNCHANGED opsLeft
    \/ ChangeTopology /\ UNCHANGED opsLeft
    \/ ResetSimulation /\ UNCHANGED opsLeft

ControlSpec == ControlInit /\ [][ControlNext]_vars

\* C31: while the run is on and stays on, only a step changes the agents,
\* the grid or the flag of the movement mode.
C31_OnlyStepsModify ==
    [][(isSimulationRunning /\ isSimulationRunning' /\ lastOp' # "step")
           => UNCHANGED <<agents, grid, sequentialMovementMode>>]_vars


\* C32: a step's position tracking raises the idle counter of an agent whose
\* cell is the one recorded at the previous tracking and sets it to 0
\* otherwise (the counter is kept at the threshold once there), and the
\* agents the detection reports for waiting are exactly those whose counter
\* has reached waitingThreshold = 3.
C32_ReportedAfterThreeIdleUpdates ==
    [][lastOp' = "step" =>
          LET as == HandlerAgentsOf(World)
              tracked == updatePositionTracking(World)
              allIds == [i \in 1..MaxAgents |-> i - 1]
              Waited(id) == waitingTime'[id] # NULL /\ waitingTime'[id] >= waitingThreshold
          IN /\ \A id \in 0..(Len(as) - 1) :
                    waitingTime'[id] =
                        IF previousPositions[id] = Pos(as[id + 1].x, as[id + 1].y)
                        THEN Min2(Num(waitingTime[id]) + 1, waitingThreshold)
                        ELSE 0
             /\ \A id \in 0..(Len(as) - 1) :
                    id \in Range(detectDeadlocks([tracked EXCEPT !.agents =
                               [k \in 1..Len(tracked.agents) |->
                                   [tracked.agents[k] EXCEPT !.path = <<>>]]]))
                        <=> Waited(id)]_vars

\* The agent the map of detectCircularDeadlocks leads to from id in n steps,
\* NULL when the map ends before.
RECURSIVE WaitsFor(_, _, _)
WaitsFor(waitingFor, id, n) ==
    IF n = 0 THEN id
    ELSE IF id \notin DOMAIN waitingFor \/ waitingFor[id] = NULL THEN NULL
    ELSE WaitsFor(waitingFor, waitingFor[id], n - 1)

\* The agent lies on a cycle of the map.
OnWaitCycle(waitingFor, id) ==
    \E n \in 1..Cardinality(DOMAIN waitingFor) : WaitsFor(waitingFor, id, n) = id

\* C33: when a step starts with a cycle in the wait-for graph, every agent on
\* the cycle is among the deadlocked agents the step hands to the resolution,
\* in both movement modes and whatever its idle counter.
C33_CycleAgentsDeadlocked ==
    (isSimulationRunning /\ ~AllAtTarget(World)) =>
        \A id \in 0..(Len(agents) - 1) :
            OnWaitCycle(agentWaitingForOf(HandlerAgentsOf(World)), id)
                => id \in Range(DeadlockedAt(World))


\* C34: the cycle detection reports an agent only if the agent lies on a
\* cycle of the wait-for graph; an agent that waits for a cycle without being
\* on it is not reported.
C34_OnlyCycleMembersReported ==
    LET as == HandlerAgentsOf(World)
        waitingFor == agentWaitingForOf(as)
        ids == [i \in 1..Len(as) |-> i - 1]
    IN \A id \in Range(detectCircularDeadlocks(waitingFor, ids, <<>>)) :
           OnWaitCycle(waitingFor, id)


\* C35: no agent that stands on its own target is among the deadlocked agents
\* of a step, and a step raises deadlockCount only if some deadlocked agent
\* is away from its target.
C35_AgentAtGoalNotDeadlocked ==
    [][(lastOp' = "step" /\ ~AllAtTarget(World)) =>
          LET w == updatePositionTracking(World)
              deadlocked == Range(DeadlockedAt(w))
          IN /\ \A id \in deadlocked :
                    id + 1 <= Len(agents) => ~AtTarget(agents[id + 1])
             /\ deadlockCount' > deadlockCount
                    => \E id \in deadlocked :
                           id + 1 <= Len(agents) /\ ~AtTarget(agents[id + 1])]_vars


\* A step that called resolveDeadlocks on a list with an agent in it.
ResolveCalled == lastOp' = "step" /\ deadlockCount' = deadlockCount + 1

\* C36: for every deadlocked agent of a step, resolveDeadlocks leaves the
\* plan of the first tactic that worked: the re-planned path if there is one,
\* else the retreat if there is one, else what the walls-only planning
\* leaves; the agent is set to retreat only if the re-planning found no path.
C36_TacticsInOrder ==
    [][ResolveCalled =>
          LET w == updatePositionTracking(World)
              ids == DeadlockedAt(w)
              resolved == HandlerAgentsOf(resolveDeadlocks(w, ids))
          IN \A id \in Range(ids) :
                 id + 1 <= Len(HandlerAgentsOf(w)) =>
                     LET k == id + 1
                         alt == findAlternativePath(w, k)
                         retreat == temporaryRetreat(w, k)
                         cleared == createClearedPathForAgent(w, k)
                     IN /\ (resolved[k].isRetreating /\ ~HandlerAgentsOf(w)[k].isRetreating)
                               => ~alt.result
                        /\ alt.result => resolved[k] = HandlerAgentsOf(alt.world)[k]
                        /\ (~alt.result /\ retreat.result)
                               => resolved[k] = HandlerAgentsOf(retreat.world)[k]
                        /\ (~alt.result /\ ~retreat.result)
                               => resolved[k] = HandlerAgentsOf(cleared)[k]]_vars

\* C37: the first tactic plans over the cells of the other agents: for a
\* deadlocked agent that has a path to its target on the grid with only the
\* walls, findAlternativePath finds a path.
C37_ReplansThroughAgents ==
    [][ResolveCalled =>
          LET w == updatePositionTracking(World)
          IN \A id \in Range(DeadlockedAt(w)) :
                 id + 1 <= Len(HandlerAgentsOf(w)) =>
                     LET a == HandlerAgentsOf(w)[id + 1]
                         g == HandlerGridOf(w)
                         wallsOnly == [cy \in DOMAIN g |-> [cx \in DOMAIN g[cy] |->
                                          IF g[cy][cx] = 1 THEN 1 ELSE 0]]
                     IN Len(AStarFindPath(wallsOnly, TOPOLOGY_VON_NEUMANN,
                                          Pos(a.x, a.y), TargetOf(a))) > 1
                            => findAlternativePath(w, id + 1).result]_vars

\* The neighbours of agent k under the selected topology that are inside the
\* grid, hold no wall and hold no other agent.
OpenNeighbours(w, k) ==
    LET g == HandlerGridOf(w)
        as == HandlerAgentsOf(w)
        around == getNeighbors(as[k].x, as[k].y, w.currentTopology, GridCols(g))
    IN {c \in Range(around) :
           /\ g[c.y][c.x] # CELL_WALL
           /\ ~\E j \in 1..Len(as) : j # k /\ as[j].x = c.x /\ as[j].y = c.y}

\* C38: for a deadlocked agent the re-planning found no path for, the retreat
\* fails only if the agent has no open neighbour under the selected topology,
\* and the cell it retreats to is an open neighbour nearest to its target.
C38_RetreatToNearestNeighbour ==
    [][ResolveCalled =>
          LET w == updatePositionTracking(World)
          IN \A id \in Range(DeadlockedAt(w)) :
                 (id + 1 <= Len(HandlerAgentsOf(w)) /\ ~findAlternativePath(w, id + 1).result) =>
                     LET k == id + 1
                         a == HandlerAgentsOf(w)[k]
                         open == OpenNeighbours(w, k)
                         retreat == temporaryRetreat(w, k)
                         to == HandlerAgentsOf(retreat.world)[k].path[2]
                     IN /\ retreat.result <=> open # {}
                        /\ retreat.result =>
                               /\ to \in open
                               /\ \A c \in open :
                                      DistToTarget(a, to.x, to.y) <= DistToTarget(a, c.x, c.y)]_vars

\* C39: the agents are processed in a step with those away from their targets
\* before those at them, those away in rising Manhattan distance to their
\* targets, and agents that compare equal in the order of the agents array;
\* the moves of a parallel step are made in that order.
C39_ProcessingOrder ==
    [][lastOp' = "step" =>
          LET order == prioritizedAgentsOf(World)
              dist(k) == DistToTarget(agents[k], agents[k].x, agents[k].y)
              place(k) == CHOOSE i \in 1..Len(order) : order[i] = k
          IN /\ Range(order) = 1..Len(agents) /\ Len(order) = Len(agents)
             /\ \A i, j \in 1..Len(order) : i < j =>
                    LET p == order[i]
                        q == order[j]
                    IN /\ ~(AtTarget(agents[p]) /\ ~AtTarget(agents[q]))
                       /\ (AtTarget(agents[p]) <=> AtTarget(agents[q]))
                              => /\ dist(p) <= dist(q)
                                 /\ dist(p) = dist(q) => p < q
             /\ (~sequentialMovementMode /\ tactic' = "") =>
                    \A m, n \in 1..Len(moves') :
                        m < n => place(moves'[m].agent) < place(moves'[n].agent)]_vars

====
